---- MODULE Spec2Model ----
(***************************************************************************)
(* A model of ilp-plugin-xrp-asym-server (src/src/index.ts, account.ts,    *)
(* store-wrapper.ts).                                                      *)
(*                                                                         *)
(* Amounts.  Ledger amounts (paychan.amount, paychan.balance, getFee) are  *)
(* XRP decimal strings with six decimals; the model holds them as the      *)
(* integer number of drops they denote, so util.xrpToDrops is the reading  *)
(* of that integer.  Account amounts (prepared, claims, outgoing balance)  *)
(* are integers in base units of 10^-currencyScale XRP.                    *)
(*                                                                         *)
(* Store.  Account fields live in the StoreWrapper cache; get is a         *)
(* synchronous cache read, so the account specifications below hold the    *)
(* cached values.                                                          *)
(*                                                                         *)
(* Ledger.  A getPaymentChannel that succeeds returns the channel as it is *)
(* on the ledger when the awaiting handler resumes; the channel's amount   *)
(* and balance only grow.                                                  *)
(*                                                                         *)
(* Specifications.  SpecIn: the incoming side of one READY account         *)
(* (PREPAREs, claims, auto-claim, reloads, the peer on the ledger).        *)
(* SpecAdmit: admission and claims with every input of the peer, up to and *)
(* after the close of the channel.  SpecOut: the settlement of prepare     *)
(* responses on the outgoing channel.  SpecBind: two accounts binding      *)
(* channels through the reverse index.  SpecClaim: the claims and the      *)
(* auto-claim of one account with a claim that is not yet on the ledger.   *)
(* SpecLife: the lifecycle of one account, from its connect to its block.  *)
(***************************************************************************)
EXTENDS Integers, Sequences, FiniteSets, TLC

----------------------------------------------------------------------------
(* Bounds of the model *)

MaxPrepares == 2       \* PREPARE packets received in one run
MaxFunds == 1          \* times the peer adds funds to its channel
MaxSettles == 3        \* prepare responses handled in one run
MaxCreates == 2       \* payment channels created for one account in one run
MaxWrites == 3         \* writes issued to the store wrapper in one run
InitialEscrow == 3000  \* drops escrowed in the incoming channel at the start
FundStep == 1000       \* drops the peer adds when it funds the channel

----------------------------------------------------------------------------
(* Program constants and configuration *)

INITIAL == 0
LOADING_CHANNEL == 1
ESTABLISHING_CHANNEL == 2
PREPARING_CHANNEL == 3
LOADING_CLIENT_CHANNEL == 4
ESTABLISHING_CLIENT_CHANNEL == 5
PREPARING_CLIENT_CHANNEL == 6
READY == 7
BLOCKED == 8

OUTGOING_CHANNEL_DEFAULT_AMOUNT == 1000000
XRP_DECIMALS == 6

\* opts.bandwidth, opts.maxPacketAmount, opts.maxFeePercent (as a percentage)
Bandwidth == 3000
MaxPacketAmount == 2000
MaxFeePercentTimes100 == 1

Scales == {6, 7}

RECURSIVE Pow10(_)
Pow10(n) == IF n = 0 THEN 1 ELSE 10 * Pow10(n - 1)

CeilDiv(a, b) == (a + b - 1) \div b

\* util.xrpToDrops(this.baseToXrp(amount)): divide by 10^scale, keep six
\* decimals rounding up, read the result in drops
baseToXrp(amount, scale) ==
  IF scale >= XRP_DECIMALS
    THEN CeilDiv(amount, Pow10(scale - XRP_DECIMALS))
    ELSE amount * Pow10(XRP_DECIMALS - scale)

\* xrpToBase(xrp): times 10^scale (an integer for the scales >= 6 modelled)
xrpToBase(drops, scale) ==
  IF scale >= XRP_DECIMALS
    THEN drops * Pow10(scale - XRP_DECIMALS)
    ELSE drops \div Pow10(XRP_DECIMALS - scale)

Max(a, b) == IF a > b THEN a ELSE b

----------------------------------------------------------------------------
(* Signatures.  A claim signature is ed25519 over encodeClaim(drops,       *)
(* channel), sent as a hex string; the model keeps who signed, the drop    *)
(* amount signed and the case of the hex digits.                           *)

NoSig == [signer |-> "none", drops |-> 0, hex |-> "lower"]
PeerSig(d) == [signer |-> "peer", drops |-> d, hex |-> "lower"]
OtherSig(d) == [signer |-> "other", drops |-> d, hex |-> "lower"]

\* the peer's signature written in upper-case hex digits
PeerSigUpper(d) == [signer |-> "peer", drops |-> d, hex |-> "upper"]

\* claim.signature.toUpperCase()
toUpperCase(sig) == [sig EXCEPT !.hex = "upper"]

\* nacl.sign.detached.verify(encodeClaim(dropAmount, channel),
\* Buffer.from(signature, 'hex'), paychan.publicKey): the bytes do not depend
\* on the case of the hex digits
verify(dropAmount, sig) == sig.signer = "peer" /\ sig.drops = dropAmount

\* paychan.publicKey of the incoming channel: the key of the peer
PublicKey == "peer"

----------------------------------------------------------------------------
(* State *)

VARIABLES
  currencyScale,  \* this._currencyScale
  state,          \* Account._state
  prepared,       \* store key <a>            (getBalance / setBalance)
  claim,          \* store key <a>:claim      (stored incoming claim)
  lastClaimed,    \* store key <a>:last_claimed
  paychan,        \* Account._paychan, the recorded incoming channel details
  ledger,         \* the incoming channel as it is on the ledger
  pkt,            \* the ilp PREPARE requests and where each stands
  kept,           \* history: total of the admitted PREPAREs that were answered
                  \* and not rolled back
  ahead,          \* history: a claim above that total was stored
  cc,             \* the _channelClaim callers in progress (the _autoClaim tick)
  reload,         \* the `channel` refresh in progress
  outgoingBalance,\* store key <a>:outgoing_balance
  owedBalance,    \* the account's owed balance
  clientPaychan,  \* Account._clientPaychan, the recorded outgoing channel details
  clientLedger,   \* the outgoing channel as it is on the ledger
  funding,        \* Account._funding
  fundTx,         \* the fundings started by _sendMoneyToAccount, by where they stand
  resp,           \* the prepare responses and where the settlement of each stands
  due,            \* history: the owed balance at the start plus the amounts of
                  \* the fulfilled PREPAREs whose settlement has run
  transfers,      \* history: the TRANSFER calls made, and the amount of the last
  bState,         \* Account._state of each account that binds a channel
  bChannel,       \* store key <a>:channel of each such account
  bPc,            \* the `channel` message each such account has in progress
  bErr,           \* the error the last `channel` message of each account threw
  idxCache,       \* StoreWrapper._cache at the keys channel:<id>
  idxStore,       \* the backing store at the keys channel:<id>
  idxWrites,      \* StoreWrapper._write: the puts queued for those keys
  block,          \* store keys <a>:block and <a>:block_reason
  bBlock,         \* those keys of each account that binds a channel
  bClient,        \* store key <a>:client_channel of each such account
  bPaychan,       \* Account._paychan of each such account: the details recorded
  bCon,           \* the _connect each such account has in progress
  bFund,          \* the fund_channel message each such account has in progress
  bTimers,        \* the auto-claim intervals registered for each such account
  bLast,          \* history: the last message of each such account, the state
                  \* it found the account in and what became of it
  chan,           \* the details of each channel as they are on the ledger
  bMap,           \* this._channelToAccount
  fetch,          \* the StoreWrapper.load in progress at each of the keys channel:<id>
  issued,         \* history: the writes set and delete have queued, in call order
  chStore,        \* the backing store at the keys <a>:channel
  rejected,       \* StoreWrapper._write is a rejected promise
  created         \* history: the payment-channel-create transactions that
                  \* have succeeded for each account

\* the incoming side of the account, and its outgoing side
inVars == <<prepared, claim, lastClaimed, paychan, ledger, pkt, kept, ahead, cc, reload>>
outVars == <<outgoingBalance, owedBalance, clientPaychan, clientLedger, funding, fundTx,
             resp, due, transfers>>

\* the accounts that bind channels, and the reverse index of the channels
bindVars == <<bState, bChannel, bPc, bErr, idxCache, idxStore, idxWrites>>

\* the lifecycle of the accounts that bind channels
lifeVars == <<bBlock, bClient, bPaychan, bCon, bFund, bTimers, bLast, chan, bMap>>

\* the loads of the store wrapper and the writes issued to it
storeVars == <<fetch, issued, chStore, rejected>>

vars == <<currencyScale, state, inVars, outVars, bindVars, block, lifeVars, storeVars,
          created>>

Packets == 1 .. MaxPrepares

NoClaim == [amount |-> 0, sig |-> NoSig]

\* Account.getIncomingClaim
getIncomingClaim ==
  IF lastClaimed > claim.amount
    THEN [amount |-> lastClaimed, sig |-> NoSig]
    ELSE claim

\* Account.isReady
isReady == state = READY

----------------------------------------------------------------------------
(* _handleIncomingPrepare: the admission checks, in the code's order *)

admissionLoose(amount) ==
  LET newPrepared == prepared + amount
  IN  IF ~isReady THEN [code |-> "F02", used |-> 0]
      ELSE IF MaxPacketAmount < amount THEN [code |-> "F08", used |-> 0]
      ELSE IF newPrepared > paychan.amount THEN [code |-> "T04funds", used |-> 0]
      ELSE [code |-> "ok", used |-> 0]

admissionSwapped(amount) ==
  LET lastValue == getIncomingClaim.amount
      newPrepared == prepared + amount
      unsecured == newPrepared - lastValue
  IN  IF MaxPacketAmount < amount THEN [code |-> "F08", used |-> 0]
      ELSE IF ~isReady THEN [code |-> "F02", used |-> 0]
      ELSE IF newPrepared > paychan.amount THEN [code |-> "T04funds", used |-> 0]
      ELSE IF unsecured > Bandwidth THEN [code |-> "T04", used |-> unsecured]
      ELSE [code |-> "ok", used |-> 0]

admission(amount) ==
  LET lastValue == getIncomingClaim.amount
      newPrepared == prepared + amount
      unsecured == newPrepared - lastValue
  IN  IF ~isReady THEN [code |-> "F02", used |-> 0]
      ELSE IF MaxPacketAmount < amount THEN [code |-> "F08", used |-> 0]
      ELSE IF unsecured > Bandwidth THEN [code |-> "T04", used |-> unsecured]
      ELSE IF newPrepared > paychan.amount THEN [code |-> "T04funds", used |-> 0]
      ELSE [code |-> "ok", used |-> 0]

rejectIncomingTransferNoRollback(amount) == prepared

rejectIncomingTransferTwice(amount) == prepared - 2 * amount

\* _rejectIncomingTransfer
rejectIncomingTransfer(amount) == prepared - amount

\* the amounts of the PREPAREs that are with the data handler
RECURSIVE SumPending(_)
SumPending(S) ==
  IF S = {} THEN 0
  ELSE LET i == CHOOSE j \in S : TRUE
       IN  (IF pkt[i].st = "pending" THEN pkt[i].amount ELSE 0) + SumPending(S \ {i})

NewPkt == [st |-> "new", amount |-> 0]
FailedPkt == [st |-> "failed", amount |-> 0]
DonePkt == [st |-> "done", amount |-> 0]

\* _handleCustomData, ilp branch, up to the race: the PREPARE is checked and
\* admitted; a failed check is caught and answered with its REJECT; a PREPARE
\* to peer.config is answered at once with a FULFILL
IlpPrepare(i, amount, dest) ==
  /\ pkt[i].st = "new"
  /\ \A j \in Packets : j < i => pkt[j].st # "new"
  /\ IF admission(amount).code # "ok"
       THEN /\ pkt' = [pkt EXCEPT ![i] = FailedPkt]
            /\ UNCHANGED <<prepared, kept>>
       ELSE /\ prepared' = prepared + amount
            /\ IF dest = "peer.config"
                 THEN /\ pkt' = [pkt EXCEPT ![i] = DonePkt]
                      /\ kept' = kept + amount
                 ELSE /\ pkt' = [pkt EXCEPT ![i] = [st |-> "pending", amount |-> amount]]
                      /\ UNCHANGED kept
  /\ UNCHANGED <<currencyScale, storeVars, created, block, lifeVars, bindVars, outVars, state,
                 claim, lastClaimed, paychan, ledger, ahead, cc, reload>>

\* the data handler wins the race with a response
DataResponse(i, response) ==
  /\ pkt[i].st = "pending"
  /\ pkt' = [pkt EXCEPT ![i] = DonePkt]
  /\ prepared' = IF response = "REJECT"
                   THEN rejectIncomingTransfer(pkt[i].amount)
                   ELSE prepared
  /\ kept' = IF response = "REJECT" THEN kept ELSE kept + pkt[i].amount
  /\ UNCHANGED <<currencyScale, storeVars, created, block, lifeVars, bindVars, outVars, state,
                 claim, lastClaimed, paychan, ledger, ahead, cc, reload>>

\* _expireData wins the race: its R00 REJECT is the response; after: where
\* the packet stands then
ExpireTo(i, after) ==
  /\ pkt[i].st = "pending"
  /\ pkt' = [pkt EXCEPT ![i] = after]
  /\ prepared' = rejectIncomingTransfer(pkt[i].amount)
  /\ UNCHANGED <<currencyScale, storeVars, created, block, lifeVars, bindVars, outVars, state,
                 claim, lastClaimed, paychan, ledger, kept, ahead, cc, reload>>

\* the expiry of a PREPARE whose data handler is not followed any further
Expire(i) == ExpireTo(i, DonePkt)

\* the expiry of a PREPARE whose data handler is still at work
ExpireFirst(i) == ExpireTo(i, [st |-> "expired", amount |-> pkt[i].amount])

DataLateRollsBack(i, response) ==
  /\ pkt[i].st = "expired"
  /\ pkt' = [pkt EXCEPT ![i] = DonePkt]
  /\ prepared' = IF response = "REJECT" THEN rejectIncomingTransfer(pkt[i].amount)
                 ELSE prepared
  /\ UNCHANGED <<currencyScale, storeVars, created, block, lifeVars, bindVars, outVars, state,
                 claim, lastClaimed, paychan, ledger, kept, ahead, cc, reload>>

\* the data handler returns a response, or throws, after the race is over:
\* the promise of the race is settled and nothing else follows the handler's
DataLate(i, response) ==
  /\ pkt[i].st = "expired"
  /\ pkt' = [pkt EXCEPT ![i] = DonePkt]
  /\ UNCHANGED <<currencyScale, storeVars, created, block, lifeVars, bindVars, outVars, state,
                 prepared, claim, lastClaimed, paychan, ledger, kept, ahead, cc,
                 reload>>

\* the data handler throws: the catch turns the error into a REJECT reply
DataThrows(i) ==
  /\ pkt[i].st = "pending"
  /\ pkt' = [pkt EXCEPT ![i] = DonePkt]
  /\ kept' = kept + pkt[i].amount
  /\ UNCHANGED <<currencyScale, storeVars, created, block, lifeVars, bindVars, outVars, state,
                 prepared, claim, lastClaimed, paychan, ledger, ahead, cc,
                 reload>>

----------------------------------------------------------------------------
(* _handleMoney / _handleClaim *)

handleClaimOffByOne(amount, sig) ==
  LET dropAmount == baseToXrp(amount, currencyScale)
      channelBalance == paychan.amount
      lastValue == getIncomingClaim.amount
  IN  IF sig = NoSig
        THEN [err |-> "signature must be provided on claim", store |-> FALSE]
      ELSE IF ~verify(dropAmount, sig)
        THEN [err |-> "Invalid claim: invalid signature", store |-> FALSE]
      ELSE IF dropAmount > channelBalance + 1
        THEN [err |-> "Invalid claim: claim amount exceeds channel balance",
              store |-> FALSE]
      ELSE [err |-> "", store |-> lastValue < amount]

handleClaimStoresEqual(amount, sig) ==
  LET dropAmount == baseToXrp(amount, currencyScale)
      channelBalance == paychan.amount
      lastValue == getIncomingClaim.amount
  IN  IF sig = NoSig
        THEN [err |-> "signature must be provided on claim", store |-> FALSE]
      ELSE IF ~verify(dropAmount, sig)
        THEN [err |-> "Invalid claim: invalid signature", store |-> FALSE]
      ELSE IF dropAmount > channelBalance
        THEN [err |-> "Invalid claim: claim amount exceeds channel balance",
              store |-> FALSE]
      ELSE [err |-> "", store |-> lastValue <= amount]

\* _handleClaim: the error it throws ("" when it returns) and whether it
\* stores the claim
handleClaim(amount, sig) ==
  LET dropAmount == baseToXrp(amount, currencyScale)
      channelBalance == paychan.amount
      lastValue == getIncomingClaim.amount
  IN  IF sig = NoSig
        THEN [err |-> "signature must be provided on claim", store |-> FALSE]
      ELSE IF ~verify(dropAmount, sig)
        THEN [err |-> "Invalid claim: invalid signature", store |-> FALSE]
      ELSE IF dropAmount > channelBalance
        THEN [err |-> "Invalid claim: claim amount exceeds channel balance",
              store |-> FALSE]
      ELSE [err |-> "", store |-> lastValue < amount]

\* _handleMoney: a transfer carrying the claim {amount, signature}
HandleMoney(amount, sig) ==
  /\ IF state < LOADING_CLIENT_CHANNEL
       THEN UNCHANGED <<claim, ahead>>
       ELSE LET r == handleClaim(amount, sig)
            IN  /\ claim' = IF r.store THEN [amount |-> amount, sig |-> sig] ELSE claim
                /\ ahead' = (ahead \/ (r.store /\ amount > kept))
  /\ UNCHANGED <<currencyScale, storeVars, created, block, lifeVars, bindVars, outVars, state,
                 prepared, lastClaimed, paychan, ledger, pkt, kept, cc,
                 reload>>

----------------------------------------------------------------------------
(* _autoClaim, _channelClaim, _channelClose *)

Idle == [pc |-> "idle", amount |-> 0, sig |-> NoSig]

\* the callers of _channelClaim: two ticks of the auto-claim interval and the
\* channelClose handler
Callers == {"auto", "auto2", "close"}

isClaimProfitableStrict(income, feeDrops) ==
  LET fee == xrpToBase(feeDrops, currencyScale)
  IN  income > 0 /\ fee * 100 < MaxFeePercentTimes100 * income

\* _isClaimProfitable, on the values read before the await of getFee
isClaimProfitable(income, feeDrops) ==
  LET fee == xrpToBase(feeDrops, currencyScale)
  IN  income > 0 /\ fee * 100 <= MaxFeePercentTimes100 * income

\* the timer fires for the tick t: _isClaimProfitable reads its values and awaits getFee
AutoClaimStartOf(t) ==
  /\ cc[t].pc = "idle"
  /\ cc' = [cc EXCEPT ![t] = [pc |-> "fee",
                                   amount |-> getIncomingClaim.amount - lastClaimed,
                                   sig |-> NoSig]]
  /\ UNCHANGED <<currencyScale, storeVars, created, block, lifeVars, bindVars, outVars, state,
                 prepared, claim, lastClaimed, paychan, ledger, pkt, kept,
                 ahead, reload>>

\* getFee returns: if profitable, lastClaimedAmount is set to the claim's
\* amount and _channelClaim runs up to its getPaymentChannel
AutoClaimFeeOf(t, feeDrops) ==
  /\ cc[t].pc = "fee"
  /\ IF isClaimProfitable(cc[t].amount, feeDrops)
       THEN /\ lastClaimed' = getIncomingClaim.amount
            /\ cc' = [cc EXCEPT ![t] = [pc |-> "query",
                        amount |-> getIncomingClaim.amount, sig |-> getIncomingClaim.sig]]
       ELSE /\ cc' = [cc EXCEPT ![t] = Idle]
            /\ UNCHANGED lastClaimed
  /\ UNCHANGED <<currencyScale, storeVars, created, block, lifeVars, bindVars, outVars, state,
                 prepared, claim, paychan, ledger, pkt, kept, ahead, reload>>

\* the auto-claim of an account whose ticks do not overlap
AutoClaimStart == AutoClaimStartOf("auto")

AutoClaimFee(feeDrops) == AutoClaimFeeOf("auto", feeDrops)

\* account.getChannel() of the account that is READY on its bound channel
getChannel == "X"

ErrorSubmittingClaim == "Error submitting claim"

\* the preparePaymentChannelClaim that the _channelClaim of caller p hands
\* to the txSubmitter, from the claim and the key it read before its await
claimTx(p) ==
  [balance |-> baseToXrp(cc[p].amount, currencyScale),
   signature |-> toUpperCase(cc[p].sig),
   publicKey |-> PublicKey,
   close |-> (p = "close"),
   channel |-> getChannel]

channelClaimQueryNoSkip(p, ok) ==
  IF ~ok \/ ledger.closed
    THEN [last |-> lastClaimed, submit |-> FALSE, err |-> ErrorSubmittingClaim]
  ELSE IF cc[p].sig = NoSig
    THEN [last |-> lastClaimed, submit |-> FALSE, err |-> ErrorSubmittingClaim]
  ELSE [last |-> lastClaimed, submit |-> TRUE, err |-> ""]

\* _channelClaim after getPaymentChannel: what it sets lastClaimedAmount to
\* (or leaves), whether it goes on to submit, and the error it throws if it
\* ends here ("" when it returns or goes on)
channelClaimQuery(p, ok) ==
  IF ~ok \/ ledger.closed
    THEN [last |-> lastClaimed, submit |-> FALSE, err |-> ErrorSubmittingClaim]
  ELSE IF ledger.balance >= baseToXrp(cc[p].amount, currencyScale)
    THEN [last |-> xrpToBase(ledger.balance, currencyScale), submit |-> FALSE,
          err |-> ""]
  ELSE IF cc[p].sig = NoSig
    THEN [last |-> lastClaimed, submit |-> FALSE, err |-> ErrorSubmittingClaim]
  ELSE [last |-> lastClaimed, submit |-> TRUE, err |-> ""]

ChannelClaimQuery(p, ok) ==
  /\ cc[p].pc = "query"
  /\ LET r == channelClaimQuery(p, ok)
     IN  /\ lastClaimed' = r.last
         /\ cc' = [cc EXCEPT ![p] = IF r.submit THEN [@ EXCEPT !.pc = "submit"] ELSE Idle]
  /\ UNCHANGED <<currencyScale, storeVars, created, block, lifeVars, bindVars, outVars, state,
                 prepared, claim, paychan, ledger, pkt, kept, ahead, reload>>

\* _channelClaim when the txSubmitter settles: the channel on the ledger
\* after it (a validated preparePaymentChannelClaim raises the channel's
\* balance, and closes the channel when close is set) and the error thrown
channelClaimSubmit(p, ok) ==
  IF ok /\ ~ledger.closed
    THEN [ledger |-> [ledger EXCEPT !.balance = Max(@, claimTx(p).balance),
                                    !.closed = claimTx(p).close],
          err |-> ""]
    ELSE [ledger |-> ledger, err |-> ErrorSubmittingClaim]

ChannelClaimSubmit(p, ok) ==
  /\ cc[p].pc = "submit"
  /\ cc' = [cc EXCEPT ![p] = Idle]
  /\ ledger' = channelClaimSubmit(p, ok).ledger
  /\ UNCHANGED <<currencyScale, storeVars, created, block, lifeVars, bindVars, outVars, state,
                 prepared, claim, lastClaimed, paychan, pkt, kept, ahead,
                 reload>>

\* Account.block(true, reason): what the block keys hold afterwards; the
\* reasons the code gives end with the id of a channel
NoBlock == [flag |-> FALSE, reason |-> "", channelId |-> ""]
Blocked(reason, channelId) == [flag |-> TRUE, reason |-> reason, channelId |-> channelId]

ChannelClosing == "channel is closing/closed. channelId="

NonexistantAccount == "cannot close channel of nonexistant account. channelId="

channelCloseNoBlock(channelId) ==
  IF channelId # getChannel
    THEN [err |-> NonexistantAccount, state |-> state, block |-> block, claim |-> FALSE]
    ELSE [err |-> "", state |-> state, block |-> block, claim |-> TRUE]

\* _channelClose up to its await: the error it throws for a channel that
\* _channelToAccount does not hold; else the state and the block keys that
\* account.block leaves, and _channelClaim(account, true) starts
channelClose(channelId) ==
  IF channelId # getChannel
    THEN [err |-> NonexistantAccount, state |-> state, block |-> block, claim |-> FALSE]
    ELSE [err |-> "", state |-> BLOCKED, block |-> Blocked(ChannelClosing, channelId),
          claim |-> TRUE]

\* the watcher's channelClose event: _channelClose, and its _channelClaim up
\* to the getPaymentChannel
ChannelClose(channelId) ==
  /\ cc["close"].pc = "idle"
  /\ ~ledger.closed
  /\ LET r == channelClose(channelId)
     IN  /\ state' = r.state
         /\ block' = r.block
         /\ cc' = IF r.claim
                    THEN [cc EXCEPT !["close"] = [pc |-> "query",
                            amount |-> getIncomingClaim.amount,
                            sig |-> getIncomingClaim.sig]]
                    ELSE cc
  /\ UNCHANGED <<currencyScale, storeVars, created, lifeVars, bindVars, outVars, prepared, claim,
                 lastClaimed, paychan, ledger, pkt, kept, ahead, reload>>

----------------------------------------------------------------------------
(* `channel` message for the channel the account already has: reload *)

ReloadStart ==
  /\ reload = "idle"
  /\ isReady
  /\ reload' = "query"
  /\ UNCHANGED <<currencyScale, storeVars, created, block, lifeVars, bindVars, outVars, state,
                 prepared, claim, lastClaimed, paychan, ledger, pkt, kept,
                 ahead, cc>>

reloadChannelZeroBalance ==
  [paychan |-> [amount |-> ledger.amount], last |-> 0]

\* Account.reloadChannel: the details recorded and the last claimed amount
reloadChannel ==
  [paychan |-> [amount |-> ledger.amount],
   last |-> xrpToBase(ledger.balance, currencyScale)]

ReloadResume(ok) ==
  /\ reload = "query"
  /\ reload' = "idle"
  /\ IF ok /\ ~ledger.closed /\ state >= LOADING_CLIENT_CHANNEL
       THEN /\ paychan' = reloadChannel.paychan
            /\ lastClaimed' = reloadChannel.last
       ELSE UNCHANGED <<paychan, lastClaimed>>
  /\ UNCHANGED <<currencyScale, storeVars, created, block, lifeVars, bindVars, outVars, state,
                 prepared, claim, ledger, pkt, kept, ahead, cc>>

----------------------------------------------------------------------------
(* The peer on the ledger: it owns the incoming channel *)

PeerFunds ==
  /\ ~ledger.closed
  /\ ledger.amount + FundStep <= InitialEscrow + MaxFunds * FundStep
  /\ ledger' = [ledger EXCEPT !.amount = @ + FundStep]
  /\ UNCHANGED <<currencyScale, storeVars, created, block, lifeVars, bindVars, outVars, state,
                 prepared, claim, lastClaimed, paychan, pkt, kept, ahead, cc,
                 reload>>

\* a PaymentChannelClaim by the channel's source pays the server on the ledger
PeerPays(b) ==
  /\ ~ledger.closed
  /\ ledger.balance < b /\ b <= ledger.amount
  /\ ledger' = [ledger EXCEPT !.balance = b]
  /\ UNCHANGED <<currencyScale, storeVars, created, block, lifeVars, bindVars, outVars, state,
                 prepared, claim, lastClaimed, paychan, pkt, kept, ahead, cc,
                 reload>>

----------------------------------------------------------------------------
(* Settlement: _handlePrepareResponse, _sendMoneyToAccount, channel funding *)

Responses == 1 .. MaxSettles

NewResp == [st |-> "new", amount |-> 0, owed |-> 0]
DoneResp == [st |-> "done", amount |-> 0, owed |-> 0]

\* Account.getOwedBalance
getOwedBalance == owedBalance

increaseAmountOwedTwice(amount) == getOwedBalance + 2 * amount

\* _increaseAmountOwed: the owed balance it sets
increaseAmountOwed(amount) == getOwedBalance + amount

decreaseAmountOwedToZero(amount) == 0

\* _decreaseAmountOwed: the owed balance it sets
decreaseAmountOwed(amount) == getOwedBalance - amount

\* the details of a client channel: its escrow and what the peer has claimed
\* of it, in drops
ClientDetails(amount, balance) == [amount |-> amount, balance |-> balance]

\* no TRANSFER has been sent
NoTransfers == [count |-> 0, amount |-> 0, drops |-> 0]

\* no funding under way
NoFundTx == [submitting |-> 0, reloading |-> 0, notifying |-> 0]

\* _sendMoneyToAccount calls util.fundChannel
startFunding == [fundTx EXCEPT !.submitting = @ + 1]

\* Account.isFunding
isFunding == funding

sendMoneyToAccountNoCapacity(transferAmount, noChannel) ==
  LET newBalance == outgoingBalance + transferAmount
      newDropBalance == baseToXrp(newBalance, currencyScale)
      aboveThreshold ==
        clientPaychan.amount - OUTGOING_CHANNEL_DEFAULT_AMOUNT \div 2 < newDropBalance
  IN  IF ~isReady \/ noChannel
        THEN [ok |-> FALSE, balance |-> outgoingBalance, drops |-> 0, fund |-> FALSE]
      ELSE [ok |-> TRUE, balance |-> newBalance, drops |-> newDropBalance,
            fund |-> ~isFunding /\ aboveThreshold]

sendMoneyToAccountRoundsEach(transferAmount, noChannel) ==
  LET newBalance == outgoingBalance + transferAmount
      newDropBalance == baseToXrp(outgoingBalance, currencyScale)
                          + baseToXrp(transferAmount, currencyScale)
      aboveThreshold ==
        clientPaychan.amount - OUTGOING_CHANNEL_DEFAULT_AMOUNT \div 2 < newDropBalance
      aboveCapacity == clientPaychan.amount < newDropBalance
      fund == ~isFunding /\ aboveThreshold
  IN  IF ~isReady \/ noChannel
        THEN [ok |-> FALSE, balance |-> outgoingBalance, drops |-> 0, fund |-> FALSE]
      ELSE IF aboveCapacity
        THEN [ok |-> FALSE, balance |-> outgoingBalance, drops |-> newDropBalance,
              fund |-> fund]
      ELSE [ok |-> TRUE, balance |-> newBalance, drops |-> newDropBalance, fund |-> fund]

sendMoneyToAccountAtThreshold(transferAmount, noChannel) ==
  LET newBalance == outgoingBalance + transferAmount
      newDropBalance == baseToXrp(newBalance, currencyScale)
      aboveThreshold ==
        clientPaychan.amount - OUTGOING_CHANNEL_DEFAULT_AMOUNT \div 2 <= newDropBalance
      aboveCapacity == clientPaychan.amount < newDropBalance
      fund == ~isFunding /\ aboveThreshold
  IN  IF ~isReady \/ noChannel
        THEN [ok |-> FALSE, balance |-> outgoingBalance, drops |-> 0, fund |-> FALSE]
      ELSE IF aboveCapacity
        THEN [ok |-> FALSE, balance |-> outgoingBalance, drops |-> newDropBalance,
              fund |-> fund]
      ELSE [ok |-> TRUE, balance |-> newBalance, drops |-> newDropBalance, fund |-> fund]

\* _sendMoneyToAccount: whether it returns a claim (or throws), the outgoing
\* balance it leaves, the drops of the claim it signs, and whether it starts
\* to fund the channel; noChannel: getClientChannel or getClientPaychan has
\* nothing to return
sendMoneyToAccount(transferAmount, noChannel) ==
  LET newBalance == outgoingBalance + transferAmount
      newDropBalance == baseToXrp(newBalance, currencyScale)
      aboveThreshold ==
        clientPaychan.amount - OUTGOING_CHANNEL_DEFAULT_AMOUNT \div 2 < newDropBalance
      aboveCapacity == clientPaychan.amount < newDropBalance
      fund == ~isFunding /\ aboveThreshold
  IN  IF ~isReady \/ noChannel
        THEN [ok |-> FALSE, balance |-> outgoingBalance, drops |-> 0, fund |-> FALSE]
      ELSE IF aboveCapacity
        THEN [ok |-> FALSE, balance |-> outgoingBalance, drops |-> newDropBalance,
              fund |-> fund]
      ELSE [ok |-> TRUE, balance |-> newBalance, drops |-> newDropBalance, fund |-> fund]

\* _handlePrepareResponse up to util._requestId(): a FULFILL of a non-zero
\* PREPARE and a T04 REJECT go on to settle in the background, the T04 with
\* the owed balance it has read
HandlePrepareResponse(j, type, amount) ==
  /\ resp[j].st = "new"
  /\ \A k \in Responses : k < j => resp[k].st # "new"
  /\ resp' = [resp EXCEPT ![j] =
       IF type = "FULFILL" /\ amount # 0
         THEN [st |-> "fulfill", amount |-> amount, owed |-> 0]
       ELSE IF type = "T04"
         THEN [st |-> "t04", amount |-> amount, owed |-> getOwedBalance]
       ELSE DoneResp]
  /\ UNCHANGED <<currencyScale, storeVars, created, block, lifeVars, bindVars, state, inVars,
                 outgoingBalance, owedBalance, clientPaychan, clientLedger,
                 funding, fundTx, due, transfers>>

\* the background settlement of a FULFILL
SettleFulfill(j, noChannel) ==
  /\ resp[j].st = "fulfill"
  /\ LET owed == getOwedBalance
         amount == owed + resp[j].amount
         r == sendMoneyToAccount(amount, noChannel)
     IN  /\ funding' = (r.fund \/ funding)
         /\ fundTx' = IF r.fund THEN startFunding ELSE fundTx
         /\ outgoingBalance' = r.balance
         /\ IF r.ok
              THEN /\ owedBalance' = decreaseAmountOwed(owed)
                   /\ transfers' = [count |-> transfers.count + 1, amount |-> amount,
                                   drops |-> r.drops]
              ELSE /\ owedBalance' = increaseAmountOwed(resp[j].amount)
                   /\ UNCHANGED transfers
  /\ due' = due + resp[j].amount
  /\ resp' = [resp EXCEPT ![j] = DoneResp]
  /\ UNCHANGED <<currencyScale, storeVars, created, block, lifeVars, bindVars, state, inVars,
                 clientPaychan, clientLedger>>

\* the background settlement of the owed balance after a T04
SettleT04(j, noChannel) ==
  /\ resp[j].st = "t04"
  /\ LET owed == resp[j].owed
         r == sendMoneyToAccount(owed, noChannel)
     IN  /\ funding' = (r.fund \/ funding)
         /\ fundTx' = IF r.fund THEN startFunding ELSE fundTx
         /\ outgoingBalance' = r.balance
         /\ IF r.ok
              THEN /\ owedBalance' = decreaseAmountOwed(owed)
                   /\ transfers' = [count |-> transfers.count + 1, amount |-> owed,
                                   drops |-> r.drops]
              ELSE UNCHANGED <<owedBalance, transfers>>
  /\ resp' = [resp EXCEPT ![j] = DoneResp]
  /\ UNCHANGED <<currencyScale, storeVars, created, block, lifeVars, bindVars, state, inVars,
                 clientPaychan, clientLedger, due>>

\* util.fundChannel settles: the funding transaction has added
\* OUTGOING_CHANNEL_DEFAULT_AMOUNT to the channel and the details are asked
\* for, or it has failed and the catch handler clears the flag
FundSubmitted(ok) ==
  /\ fundTx.submitting > 0
  /\ IF ok
       THEN /\ clientLedger' = [clientLedger EXCEPT
                                  !.amount = @ + OUTGOING_CHANNEL_DEFAULT_AMOUNT]
            /\ fundTx' = [fundTx EXCEPT !.submitting = @ - 1, !.reloading = @ + 1]
            /\ UNCHANGED funding
       ELSE /\ fundTx' = [fundTx EXCEPT !.submitting = @ - 1]
            /\ funding' = FALSE
            /\ UNCHANGED clientLedger
  /\ UNCHANGED <<currencyScale, storeVars, created, block, lifeVars, bindVars, state, inVars,
                 outgoingBalance, owedBalance, clientPaychan, resp, due,
                 transfers>>

\* getPaymentChannel returns to the funding: reloadClientChannel records the
\* details, the flag is cleared and the peer is told of the channel; a failed
\* lookup or reload goes to the catch handler, which clears the flag
FundReloaded(ok) ==
  /\ fundTx.reloading > 0
  /\ funding' = FALSE
  /\ IF ok /\ state = READY
       THEN /\ clientPaychan' = clientLedger
            /\ fundTx' = [fundTx EXCEPT !.reloading = @ - 1, !.notifying = @ + 1]
       ELSE /\ fundTx' = [fundTx EXCEPT !.reloading = @ - 1]
            /\ UNCHANGED clientPaychan
  /\ UNCHANGED <<currencyScale, storeVars, created, block, lifeVars, bindVars, state, inVars,
                 outgoingBalance, owedBalance, clientLedger, resp, due,
                 transfers>>

\* the peer answers the `channel` message of a funding, or the call fails and
\* the catch handler clears the flag
FundNotified(ok) ==
  /\ fundTx.notifying > 0
  /\ fundTx' = [fundTx EXCEPT !.notifying = @ - 1]
  /\ funding' = IF ok THEN funding ELSE FALSE
  /\ UNCHANGED <<currencyScale, storeVars, created, block, lifeVars, bindVars, state, inVars,
                 outgoingBalance, owedBalance, clientPaychan, clientLedger, resp,
                 due, transfers>>

\* the outgoing side at rest
OutIdle ==
  /\ outgoingBalance = 0
  /\ owedBalance = 0
  /\ clientPaychan = ClientDetails(OUTGOING_CHANNEL_DEFAULT_AMOUNT, 0)
  /\ clientLedger = ClientDetails(OUTGOING_CHANNEL_DEFAULT_AMOUNT, 0)
  /\ funding = FALSE
  /\ fundTx = NoFundTx
  /\ resp = [j \in Responses |-> NewResp]
  /\ due = 0
  /\ transfers = NoTransfers

----------------------------------------------------------------------------
(* The lifecycle of an account and the `channel` message of an account     *)
(* without a channel: the channel is bound to the account through the      *)
(* reverse index channel:<id>                                              *)

Accts == {"a", "b"}
Chans == {"X", "Y"}

\* the id of the client channel an account gets
ClientChannel == "C"

NoError == [msg |-> "", account |-> "", associated |-> ""]
Error(msg) == [msg |-> msg, account |-> "", associated |-> ""]

\* util.MIN_SETTLE_DELAY (seconds) and this._address
MIN_SETTLE_DELAY == 3600
Address == "server"

\* what _validatePaychanDetails reads of a channel
Details(settleDelay, cancelAfter, expiration, destination) ==
  [settleDelay |-> settleDelay, cancelAfter |-> cancelAfter,
   expiration |-> expiration, destination |-> destination]

\* Account._paychan when no details are recorded
NoPaychan == Details(0, FALSE, FALSE, "")

SettleDelayTooLow == "settle delay of incoming payment channel too low"
HasCancelAfter == "channel must not have a cancelAfter"
IsClosing == "channel must not be in the process of closing"
WrongDestination == "Channel destination address wrong"

validatePaychanDetailsReordered(details) ==
  IF details.settleDelay < MIN_SETTLE_DELAY THEN SettleDelayTooLow
  ELSE IF details.expiration THEN IsClosing
  ELSE IF details.cancelAfter THEN HasCancelAfter
  ELSE IF details.destination # Address THEN WrongDestination
  ELSE ""

\* _validatePaychanDetails: the error it throws ("" when it returns)
validatePaychanDetails(details) ==
  IF details.settleDelay < MIN_SETTLE_DELAY THEN SettleDelayTooLow
  ELSE IF details.cancelAfter THEN HasCancelAfter
  ELSE IF details.expiration THEN IsClosing
  ELSE IF details.destination # Address THEN WrongDestination
  ELSE ""

BindIdlePc == [pc |-> "idle", channel |-> "", sigValid |-> FALSE, read |-> FALSE,
               paychan |-> NoPaychan]

ConIdle == [pc |-> "idle", channel |-> ""]
ConDone == [pc |-> "done", channel |-> ""]

NoLast == [protocol |-> "none", state |-> INITIAL, result |-> "none", replay |-> FALSE]

\* no load is in progress and no write was issued
FetchIdle == [pc |-> "idle", wrote |-> FALSE]

StoreIdle ==
  /\ fetch = [c \in Chans |-> FetchIdle]
  /\ issued = <<>>
  /\ rejected = FALSE
  /\ created = [p \in Accts |-> 0]

loadNoDoubleCheck(ch, read) ==
  IF read THEN idxStore[ch] ELSE idxCache[ch]

\* StoreWrapper.load when the read of the backing store returns: the cache
\* at the key (the double check keeps a value set in the meantime)
load(ch, read) ==
  IF read /\ idxCache[ch] = "absent" THEN idxStore[ch] ELSE idxCache[ch]

bindCheckNoIndex(acct, accountForChannel, sigValid, detailsError) ==
  IF ~sigValid
    THEN Error("invalid signature for proving channel ownership")
  ELSE IF detailsError # "" THEN Error(detailsError)
  ELSE NoError

\* the checks between store.load and the binding: the error thrown, if any
bindCheck(acct, accountForChannel, sigValid, detailsError) ==
  IF accountForChannel # "none" /\ accountForChannel # acct
    THEN [msg |-> "this channel has already been associated with a different account",
          account |-> acct, associated |-> accountForChannel]
  ELSE IF ~sigValid
    THEN Error("invalid signature for proving channel ownership")
  ELSE IF detailsError # "" THEN Error(detailsError)
  ELSE NoError

ChannelStateError ==
  "channel protocol can only be used in READY and ESTABLISHING_CHANNEL states"

\* _registerAutoClaim: the intervals registered for the account afterwards
registerAutoClaim(acct) == IF bTimers[acct] # 0 THEN bTimers[acct] ELSE 1

\* _handleCustomData, channel branch, up to its first await; a message that
\* arrives while an earlier one is binding finds the account in
\* PREPARING_CHANNEL
ChannelMessage(acct, ch, hasSig, sigValid) ==
  /\ bPc[acct].pc # "reload"
  /\ LET replay == hasSig /\ sigValid /\ bChannel[acct] = ch
         last(result) == [protocol |-> "channel", state |-> bState[acct],
                          result |-> result, replay |-> replay]
     IN  IF bState[acct] # READY /\ bState[acct] # ESTABLISHING_CHANNEL
           THEN /\ bErr' = [bErr EXCEPT ![acct] = Error(ChannelStateError)]
                /\ bLast' = [bLast EXCEPT ![acct] = last("state")]
                /\ UNCHANGED <<bState, bPc>>
         ELSE IF ~hasSig
           THEN /\ bErr' = [bErr EXCEPT ![acct] = Error(
                     "got channel without signature of channel ownership")]
                /\ bLast' = [bLast EXCEPT ![acct] = last("error")]
                /\ UNCHANGED <<bState, bPc>>
         ELSE IF bState[acct] > PREPARING_CHANNEL
           THEN IF bChannel[acct] # ch
                  THEN /\ bErr' = [bErr EXCEPT ![acct] = Error(
                            "there is already an existing channel on this account")]
                       /\ bLast' = [bLast EXCEPT ![acct] = last("error")]
                       /\ UNCHANGED <<bState, bPc>>
                  ELSE /\ bPc' = [bPc EXCEPT ![acct] =
                                    [BindIdlePc EXCEPT !.pc = "reload", !.channel = ch]]
                       /\ bLast' = [bLast EXCEPT ![acct] = last("accepted")]
                       /\ UNCHANGED <<bState, bErr>>
         ELSE /\ bState' = [bState EXCEPT ![acct] = PREPARING_CHANNEL]
              /\ bPc' = [bPc EXCEPT ![acct] =
                           [BindIdlePc EXCEPT !.pc = "query", !.channel = ch,
                                              !.sigValid = sigValid]]
              /\ bLast' = [bLast EXCEPT ![acct] = last("accepted")]
              /\ UNCHANGED bErr
  /\ UNCHANGED <<currencyScale, storeVars, created, block, state, inVars, outVars, bChannel, idxCache,
                 idxStore, idxWrites, bBlock, bClient, bPaychan, bCon, bFund,
                 bTimers, chan, bMap>>

\* getPaymentChannel returns to a reload: account.reloadChannel records the
\* details it returned; the binding is as it was
ChannelReloaded(acct, ok) ==
  /\ bPc[acct].pc = "reload"
  /\ bPc' = [bPc EXCEPT ![acct] = BindIdlePc]
  /\ IF ~ok
       THEN /\ bErr' = [bErr EXCEPT ![acct] = Error("getPaymentChannel")]
            /\ UNCHANGED bPaychan
     ELSE IF bState[acct] < LOADING_CLIENT_CHANNEL
       THEN /\ bErr' = [bErr EXCEPT ![acct] = Error(
                 "state must be at least LOADING_CLIENT_CHANNEL to reload channel details.")]
            /\ UNCHANGED bPaychan
     ELSE /\ bErr' = [bErr EXCEPT ![acct] = NoError]
          /\ bPaychan' = [bPaychan EXCEPT ![acct] = chan[bPc[acct].channel]]
  /\ UNCHANGED <<currencyScale, storeVars, created, block, state, inVars, outVars, bState, bChannel,
                 idxCache, idxStore, idxWrites, bBlock, bClient, bCon, bFund,
                 bTimers, bLast, chan, bMap>>

resetChannelStays(acct) == bState[acct]

\* Account.resetChannel: the state it leaves (it throws in any state but
\* PREPARING_CHANNEL)
resetChannel(acct) ==
  IF bState[acct] = PREPARING_CHANNEL THEN ESTABLISHING_CHANNEL ELSE bState[acct]

\* getPaymentChannel returns to a binding: on an error the account is reset,
\* else store.load('channel:' + channel) starts (and reads the backing store
\* if the cache has no entry)
ChannelQueried(acct, ok) ==
  /\ bPc[acct].pc = "query"
  /\ IF ok
       THEN /\ bPc' = [bPc EXCEPT ![acct] =
                         [@ EXCEPT !.pc = "load",
                                   !.read = (idxCache[bPc[acct].channel] = "absent"),
                                   !.paychan = chan[bPc[acct].channel]]]
            /\ UNCHANGED <<bState, bErr>>
       ELSE /\ bPc' = [bPc EXCEPT ![acct] = BindIdlePc]
            /\ bState' = [bState EXCEPT ![acct] = resetChannel(acct)]
            /\ bErr' = [bErr EXCEPT ![acct] = Error("getPaymentChannel")]
  /\ UNCHANGED <<currencyScale, storeVars, created, block, state, inVars, outVars, bChannel, idxCache,
                 idxStore, idxWrites, lifeVars>>

adoptionWritesChannelFirst(acct, ch) ==
  <<[key |-> acct, value |-> ch], [key |-> ch, value |-> acct]>>

\* the writes a completed adoption queues: the reverse index by
\* this._store.set('channel:' + channel, ...), then the account's channel
\* key by Account.setChannel
adoptionWrites(acct, ch) ==
  <<[key |-> ch, value |-> acct], [key |-> acct, value |-> ch]>>

\* store.load returns: the index is checked, the proof and the details are
\* validated; on an error the account is reset; else the index and
\* _channelToAccount are set and setChannel binds the channel (it throws in
\* any state but PREPARING_CHANNEL), _connectClientChannel finds that the
\* account, which had no channel, has no client channel either, and the
\* watcher and the auto-claim are registered
ChannelLoaded(acct) ==
  /\ bPc[acct].pc = "load"
  /\ LET ch == bPc[acct].channel
         accountForChannel == load(ch, bPc[acct].read)
         e == bindCheck(acct, accountForChannel, bPc[acct].sigValid,
                        validatePaychanDetails(bPc[acct].paychan))
     IN  IF e # NoError
           THEN /\ bErr' = [bErr EXCEPT ![acct] = e]
                /\ idxCache' = [idxCache EXCEPT ![ch] = accountForChannel]
                /\ bState' = [bState EXCEPT ![acct] = resetChannel(acct)]
                /\ UNCHANGED <<idxWrites, bChannel, bPaychan, bTimers, bMap>>
           ELSE /\ idxCache' = [idxCache EXCEPT ![ch] = acct]
                /\ idxWrites' = idxWrites \o
                     (IF bState[acct] = PREPARING_CHANNEL
                        THEN adoptionWrites(acct, ch)
                        ELSE <<[key |-> ch, value |-> acct]>>)
                /\ bMap' = [bMap EXCEPT ![ch] = acct]
                /\ IF bState[acct] # PREPARING_CHANNEL
                     THEN /\ bErr' = [bErr EXCEPT ![acct] = Error(
                               "account must be in state PREPARING_CHANNEL.")]
                          /\ UNCHANGED <<bState, bChannel, bPaychan, bTimers>>
                     ELSE /\ bErr' = [bErr EXCEPT ![acct] = e]
                          /\ bChannel' = [bChannel EXCEPT ![acct] = ch]
                          /\ bPaychan' = [bPaychan EXCEPT ![acct] = bPc[acct].paychan]
                          /\ bState' = [bState EXCEPT
                                          ![acct] = ESTABLISHING_CLIENT_CHANNEL]
                          /\ bTimers' = [bTimers EXCEPT ![acct] = registerAutoClaim(acct)]
  /\ bPc' = [bPc EXCEPT ![acct] = BindIdlePc]
  /\ UNCHANGED <<currencyScale, storeVars, created, block, state, inVars, outVars, idxStore, bBlock,
                 bClient, bCon, bFund, bLast, chan>>

\* store.put or store.del: the backing store after the write w
putIndex(w) ==
  IF w.key \in Chans THEN [idxStore EXCEPT ![w.key] = w.value] ELSE idxStore

putChannel(w) ==
  IF w.key \in Accts THEN [chStore EXCEPT ![w.key] = w.value] ELSE chStore

IndexWrittenLast ==
  /\ idxWrites # <<>>
  /\ ~rejected
  /\ idxStore' = putIndex(idxWrites[Len(idxWrites)])
  /\ chStore' = putChannel(idxWrites[Len(idxWrites)])
  /\ idxWrites' = SubSeq(idxWrites, 1, Len(idxWrites) - 1)
  /\ UNCHANGED <<currencyScale, fetch, issued, rejected, created, block, state, inVars, outVars, lifeVars,
                 bState, bChannel, bPc, bErr, idxCache>>

\* StoreWrapper._write: the next queued put or del reaches the backing
\* store; the callbacks chained to a rejected promise are never called
IndexWritten ==
  /\ idxWrites # <<>>
  /\ ~rejected
  /\ idxStore' = putIndex(Head(idxWrites))
  /\ chStore' = putChannel(Head(idxWrites))
  /\ idxWrites' = Tail(idxWrites)
  /\ UNCHANGED <<currencyScale, fetch, issued, rejected, created, block, lifeVars, state, inVars, outVars, bState,
                 bChannel, bPc, bErr, idxCache>>

\* StoreWrapper._write: the put or del of the next queued write is rejected
\* by the backing store, and the promise the later writes are chained to is
\* rejected with it
IndexWriteFails ==
  /\ idxWrites # <<>>
  /\ ~rejected
  /\ rejected' = TRUE
  /\ idxWrites' = Tail(idxWrites)
  /\ UNCHANGED <<currencyScale, fetch, issued, chStore, created, block, lifeVars,
                 state, inVars, outVars, bState, bChannel, bPc, bErr, idxCache,
                 idxStore>>

\* StoreWrapper._write: the promise chained to a rejected one is rejected in
\* its turn and its callback, the put or del of the write, is not called
IndexWriteSkipped ==
  /\ idxWrites # <<>>
  /\ rejected
  /\ idxWrites' = Tail(idxWrites)
  /\ UNCHANGED <<currencyScale, storeVars, created, block, lifeVars, state, inVars,
                 outVars, bState, bChannel, bPc, bErr, idxCache, idxStore>>

\* StoreWrapper.get ("absent": the key is not in the cache, "none": it is
\* there without a value; both read as undefined)
get(key) == idxCache[key]

\* StoreWrapper.set: the cache takes the value at once and the put is queued
\* behind the writes issued before
StoreSet(key, value) ==
  /\ Len(issued) < MaxWrites
  /\ idxCache' = [idxCache EXCEPT ![key] = value]
  /\ idxWrites' = Append(idxWrites, [key |-> key, value |-> value])
  /\ issued' = Append(issued, [key |-> key, value |-> value])
  /\ fetch' = [fetch EXCEPT ![key] = IF @.pc = "asked" THEN [@ EXCEPT !.wrote = TRUE]
                                     ELSE @]
  /\ UNCHANGED <<currencyScale, chStore, rejected, created, block, state, inVars, outVars, lifeVars, bState,
                 bChannel, bPc, bErr, idxStore>>

\* StoreWrapper.delete: the key leaves the cache at once and the del is
\* queued behind the writes issued before
StoreDelete(key) ==
  /\ Len(issued) < MaxWrites
  /\ idxCache' = [idxCache EXCEPT ![key] = "absent"]
  /\ idxWrites' = Append(idxWrites, [key |-> key, value |-> "none"])
  /\ issued' = Append(issued, [key |-> key, value |-> "none"])
  /\ fetch' = [fetch EXCEPT ![key] = [@ EXCEPT !.wrote = FALSE]]
  /\ UNCHANGED <<currencyScale, chStore, rejected, created, block, state, inVars, outVars, lifeVars, bState,
                 bChannel, bPc, bErr, idxStore>>

\* StoreWrapper.load up to its await: nothing for a key the cache has, else
\* the backing store is asked
StoreLoad(key) ==
  /\ fetch[key].pc # "asked"
  /\ fetch' = IF idxCache[key] # "absent" THEN fetch
              ELSE [fetch EXCEPT ![key] = [pc |-> "asked", wrote |-> FALSE]]
  /\ UNCHANGED <<currencyScale, issued, chStore, rejected, created, block, state, inVars, outVars, bindVars,
                 lifeVars>>

\* the backing store answers the load
StoreLoaded(key) ==
  /\ fetch[key].pc = "asked"
  /\ idxCache' = [idxCache EXCEPT ![key] = load(key, TRUE)]
  /\ fetch' = [fetch EXCEPT ![key] = [@ EXCEPT !.pc = "done"]]
  /\ UNCHANGED <<currencyScale, issued, chStore, rejected, created, block, state, inVars, outVars, lifeVars,
                 bState, bChannel, bPc, bErr, idxStore, idxWrites>>

----------------------------------------------------------------------------
(* _connect and Account.connect *)

ValidDetails == Details(MIN_SETTLE_DELAY, FALSE, FALSE, Address)

\* _connect once account.connect() has returned with the account in state
\* st with the details recorded: a blocked account is refused; the
\* details of an account that has a channel are validated, and then either
\* the channel is entered in _channelToAccount and the watcher and the
\* auto-claim are registered, or _channelClaim starts; an account whose
\* channel key is not loaded fails in account.getChannel()
deleteChannelKeepsBalance ==
  [prepared |-> prepared, claim |-> NoClaim, lastClaimed |-> 0]

\* Account.deleteChannel: the balance, incoming claim and last claimed amount
\* the store holds afterwards
deleteChannel ==
  [prepared |-> prepared - lastClaimed, claim |-> NoClaim, lastClaimed |-> 0]

BlockedAccount == "cannot connect to blocked account."

DEFAULT_BLOCK_REASON == "channel must be re-established"

\* Account.getBlockReason: the stored reason of a BLOCKED account, or the
\* default one if none is stored ("" stands for the `false` of an account
\* that is not BLOCKED)
getBlockReason(acct) ==
  IF bState[acct] # BLOCKED THEN ""
  ELSE IF bBlock[acct].reason # "" THEN bBlock[acct].reason
  ELSE DEFAULT_BLOCK_REASON

\* _connect after account.connect(): the error it throws for a blocked
\* account
connectError(acct, st) ==
  IF st = BLOCKED \/ bBlock[acct].flag THEN BlockedAccount ELSE ""

\* Account.connect in any state but INITIAL: _assertState throws
connectAssert(acct) == bState[acct] # INITIAL

connected(acct, st, details) ==
  IF connectError(acct, st) # "" \/ st <= PREPARING_CHANNEL
       \/ bChannel[acct] = "none"
    THEN [pc |-> "done", map |-> bMap, timers |-> bTimers]
  ELSE IF validatePaychanDetails(details) # ""
    THEN [pc |-> "claim", map |-> bMap, timers |-> bTimers]
  ELSE [pc |-> "done", map |-> [bMap EXCEPT ![bChannel[acct]] = acct],
        timers |-> [bTimers EXCEPT ![acct] = registerAutoClaim(acct)]]

\* _connect of an account in state INITIAL: account.connect() starts to load
\* the account's keys
Connect(acct) ==
  /\ bCon[acct].pc = "idle"
  /\ ~connectAssert(acct)
  /\ bCon' = [bCon EXCEPT ![acct] = [pc |-> "load", channel |-> ""]]
  /\ UNCHANGED <<currencyScale, storeVars, created, block, state, inVars, outVars, bindVars, bBlock,
                 bClient, bPaychan, bFund, bTimers, bLast, chan, bMap>>

ConnectLoadedSkipsBlock(acct) ==
  /\ bCon[acct].pc = "load"
  /\ IF FALSE
       THEN /\ bState' = [bState EXCEPT ![acct] = BLOCKED]
            /\ bCon' = [bCon EXCEPT ![acct] = ConDone]
     ELSE IF bChannel[acct] # "none"
       THEN /\ bState' = [bState EXCEPT ![acct] = LOADING_CHANNEL]
            /\ bCon' = [bCon EXCEPT ![acct] = [pc |-> "channel",
                                               channel |-> bChannel[acct]]]
     ELSE /\ bState' = [bState EXCEPT ![acct] = ESTABLISHING_CHANNEL]
          /\ bCon' = [bCon EXCEPT ![acct] = ConDone]
  /\ UNCHANGED <<currencyScale, storeVars, created, block, state, inVars, outVars, bChannel, bPc, bErr,
                 idxCache, idxStore, idxWrites, bBlock, bClient, bPaychan, bFund,
                 bTimers, bLast, chan, bMap>>

\* the loads return: a persisted block flag blocks the account; else the
\* account is LOADING_CHANNEL and _connectChannel queries the channel it has,
\* or leaves an account without a channel in ESTABLISHING_CHANNEL
ConnectLoaded(acct) ==
  /\ bCon[acct].pc = "load"
  /\ IF bBlock[acct].flag
       THEN /\ bState' = [bState EXCEPT ![acct] = BLOCKED]
            /\ bCon' = [bCon EXCEPT ![acct] = ConDone]
     ELSE IF bChannel[acct] # "none"
       THEN /\ bState' = [bState EXCEPT ![acct] = LOADING_CHANNEL]
            /\ bCon' = [bCon EXCEPT ![acct] = [pc |-> "channel",
                                               channel |-> bChannel[acct]]]
     ELSE /\ bState' = [bState EXCEPT ![acct] = ESTABLISHING_CHANNEL]
          /\ bCon' = [bCon EXCEPT ![acct] = ConDone]
  /\ UNCHANGED <<currencyScale, storeVars, created, block, state, inVars, outVars, bChannel, bPc, bErr,
                 idxCache, idxStore, idxWrites, bBlock, bClient, bPaychan, bFund,
                 bTimers, bLast, chan, bMap>>

ConnectResults == {"ok", "entryNotFound", "TimeoutError", "other"}

\* getPaymentChannel returns to _connectChannel.  ok: the details are
\* recorded, the account is LOADING_CLIENT_CHANNEL and _connectClientChannel
\* queries the client channel it has, or leaves an account without one in
\* ESTABLISHING_CLIENT_CHANNEL.  entryNotFound: the account is blocked and
\* the channel deleted.  TimeoutError: retry after a delay.  Any other error
\* is logged and the account stays as it is.
ConnectChannelQueried(acct, result) ==
  /\ bCon[acct].pc = "channel"
  /\ LET st == IF result = "ok"
                 THEN IF bClient[acct] # "none" THEN LOADING_CLIENT_CHANNEL
                      ELSE ESTABLISHING_CLIENT_CHANNEL
               ELSE IF result = "entryNotFound" THEN BLOCKED
               ELSE bState[acct]
         details == IF result = "ok" THEN chan[bCon[acct].channel]
                    ELSE IF result = "entryNotFound" THEN NoPaychan
                    ELSE bPaychan[acct]
         tail == connected(acct, st, details)
     IN  /\ bState' = [bState EXCEPT ![acct] = st]
         /\ bPaychan' = [bPaychan EXCEPT ![acct] = details]
         /\ bBlock' = [bBlock EXCEPT ![acct] =
                         IF result = "entryNotFound"
                           THEN Blocked("channel cannot be loaded. channelId=",
                                        bCon[acct].channel)
                           ELSE @]
         /\ bChannel' = [bChannel EXCEPT ![acct] =
                           IF result = "entryNotFound" THEN "none" ELSE @]
         /\ idxWrites' = IF result = "entryNotFound"
                           THEN Append(idxWrites, [key |-> acct, value |-> "none"])
                           ELSE idxWrites
         /\ IF result = "ok"
              THEN /\ lastClaimed' = xrpToBase(ledger.balance, currencyScale)
                   /\ UNCHANGED <<prepared, claim>>
            ELSE IF result = "entryNotFound"
              THEN /\ prepared' = deleteChannel.prepared
                   /\ claim' = deleteChannel.claim
                   /\ lastClaimed' = deleteChannel.lastClaimed
            ELSE UNCHANGED <<prepared, claim, lastClaimed>>
         /\ IF result = "TimeoutError"
              THEN /\ bCon' = [bCon EXCEPT ![acct] = [@ EXCEPT !.pc = "channelRetry"]]
                   /\ UNCHANGED <<bMap, bTimers>>
            ELSE IF result = "ok" /\ bClient[acct] # "none"
              THEN /\ bCon' = [bCon EXCEPT ![acct] = [pc |-> "client",
                                                      channel |-> bClient[acct]]]
                   /\ UNCHANGED <<bMap, bTimers>>
            ELSE /\ bCon' = [bCon EXCEPT ![acct] = [ConDone EXCEPT !.pc = tail.pc]]
                 /\ bMap' = tail.map
                 /\ bTimers' = tail.timers
  /\ UNCHANGED <<currencyScale, storeVars, created, block, state, paychan, ledger, pkt, kept, ahead, cc,
                 reload, outVars, bPc, bErr, idxCache, idxStore, bClient,
                 bFund, bLast, chan>>

\* getPaymentChannel returns to _connectClientChannel.  ok: the account is
\* READY.  entryNotFound: the account is blocked.  TimeoutError: retry after
\* a delay.  Any other error is logged and the account stays as it is.
ConnectClientQueried(acct, result) ==
  /\ bCon[acct].pc = "client"
  /\ LET st == IF result = "ok" THEN READY
               ELSE IF result = "entryNotFound" THEN BLOCKED
               ELSE bState[acct]
         tail == connected(acct, st, bPaychan[acct])
     IN  /\ bState' = [bState EXCEPT ![acct] = st]
         /\ clientPaychan' = IF result = "ok" THEN clientLedger ELSE clientPaychan
         /\ bBlock' = [bBlock EXCEPT ![acct] =
                         IF result = "entryNotFound"
                           THEN Blocked("client channel cannot be loaded. clientChannelId=",
                                        bCon[acct].channel)
                           ELSE @]
         /\ IF result = "TimeoutError"
              THEN /\ bCon' = [bCon EXCEPT ![acct] = [@ EXCEPT !.pc = "clientRetry"]]
                   /\ UNCHANGED <<bMap, bTimers>>
              ELSE /\ bCon' = [bCon EXCEPT ![acct] = [ConDone EXCEPT !.pc = tail.pc]]
                   /\ bMap' = tail.map
                   /\ bTimers' = tail.timers
  /\ UNCHANGED <<currencyScale, storeVars, created, block, state, inVars, outgoingBalance, owedBalance,
                 clientLedger, funding, fundTx, resp, due, transfers, bChannel, bPc,
                 bErr, idxCache, idxStore, idxWrites, bClient, bPaychan, bFund, bLast,
                 chan>>

ConnectRetryGivesUp(acct) ==
  /\ bCon[acct].pc \in {"channelRetry", "clientRetry"}
  /\ bCon' = [bCon EXCEPT ![acct] = ConDone]
  /\ UNCHANGED <<currencyScale, storeVars, created, block, state, inVars, outVars, bindVars, bBlock,
                 bClient, bPaychan, bFund, bTimers, bLast, chan, bMap>>

\* the retry delay is over: _connectChannel or _connectClientChannel runs
\* again and queries the ledger, unless its _assertState throws
ConnectRetry(acct) ==
  /\ bCon[acct].pc \in {"channelRetry", "clientRetry"}
  /\ LET again == IF bCon[acct].pc = "channelRetry" THEN "channel" ELSE "client"
         wanted == IF bCon[acct].pc = "channelRetry" THEN LOADING_CHANNEL
                   ELSE LOADING_CLIENT_CHANNEL
     IN  bCon' = [bCon EXCEPT ![acct] =
                    IF bState[acct] = wanted THEN [@ EXCEPT !.pc = again] ELSE ConDone]
  /\ UNCHANGED <<currencyScale, storeVars, created, block, state, inVars, outVars, bindVars, bBlock,
                 bClient, bPaychan, bFund, bTimers, bLast, chan, bMap>>

\* the _channelClaim that _connect runs after a failed validation returns:
\* if it succeeded the channel is deleted, and the account.getChannel() of
\* the block reason then throws before block is called; if it failed the
\* account is blocked
ConnectClaimed(acct, ok) ==
  /\ bCon[acct].pc = "claim"
  /\ bCon' = [bCon EXCEPT ![acct] = ConDone]
  /\ IF bChannel[acct] = "none"
       THEN UNCHANGED <<bState, bChannel, bPaychan, bBlock, prepared, claim,
                        lastClaimed, idxWrites>>
     ELSE IF ok
       THEN /\ bChannel' = [bChannel EXCEPT ![acct] = "none"]
            /\ bPaychan' = [bPaychan EXCEPT ![acct] = NoPaychan]
            /\ prepared' = deleteChannel.prepared
            /\ claim' = deleteChannel.claim
            /\ lastClaimed' = deleteChannel.lastClaimed
            /\ idxWrites' = Append(idxWrites, [key |-> acct, value |-> "none"])
            /\ UNCHANGED <<bState, bBlock>>
     ELSE /\ bState' = [bState EXCEPT ![acct] = BLOCKED]
          /\ bBlock' = [bBlock EXCEPT ![acct] =
                          Blocked("failed to validate channel. channelId=",
                                  bChannel[acct])]
          /\ UNCHANGED <<bChannel, bPaychan, prepared, claim, lastClaimed, idxWrites>>
  /\ UNCHANGED <<currencyScale, storeVars, created, block, state, paychan, ledger, pkt, kept, ahead, cc,
                 reload, outVars, bPc, bErr, idxCache, idxStore, bClient,
                 bFund, bTimers, bLast, chan, bMap>>

----------------------------------------------------------------------------
(* fund_channel, ilp, channelClose, disconnect *)

FundStateError == "fund protocol can only be used in ESTABLISHING_CLIENT_CHANNEL state."

fundRefusedWhilePreparing(acct) ==
  bState[acct] \notin {ESTABLISHING_CLIENT_CHANNEL, PREPARING_CLIENT_CHANNEL}

\* the state check of the fund_channel branch
fundRefused(acct) == bState[acct] # ESTABLISHING_CLIENT_CHANNEL

\* _handleCustomData, fund_channel branch, up to the await of the
\* txSubmitter in _fundOutgoingChannel; escrowed: the incoming channel holds
\* MIN_INCOMING_CHANNEL drops
FundChannelMessage(acct, escrowed) ==
  /\ bState[acct] = ESTABLISHING_CLIENT_CHANNEL => bFund[acct] = "idle"
  /\ LET last(result) == [protocol |-> "fund_channel", state |-> bState[acct],
                          result |-> result, replay |-> FALSE]
     IN  IF fundRefused(acct)
           THEN /\ bLast' = [bLast EXCEPT ![acct] = last("state")]
                /\ UNCHANGED <<bState, bFund>>
         ELSE IF ~escrowed
           THEN /\ bLast' = [bLast EXCEPT ![acct] = last("error")]
                /\ UNCHANGED <<bState, bFund>>
         ELSE /\ bLast' = [bLast EXCEPT ![acct] = last("accepted")]
              /\ bState' = [bState EXCEPT ![acct] = PREPARING_CLIENT_CHANNEL]
              /\ bFund' = [bFund EXCEPT ![acct] = "create"]
  /\ UNCHANGED <<currencyScale, storeVars, created, block, state, inVars, outVars, bChannel, bPc, bErr,
                 idxCache, idxStore, idxWrites, bBlock, bClient, bPaychan, bCon,
                 bTimers, chan, bMap>>

\* Account.resetClientChannel: the state it leaves (it throws in any state
\* but PREPARING_CLIENT_CHANNEL)
resetClientChannel(acct) ==
  IF bState[acct] = PREPARING_CLIENT_CHANNEL THEN ESTABLISHING_CLIENT_CHANNEL
  ELSE bState[acct]

\* the preparePaymentChannelCreate settles: getPaymentChannel of the new
\* channel starts, or the account is reset
FundChannelCreated(acct, ok) ==
  /\ bFund[acct] = "create"
  /\ ok => created[acct] < MaxCreates
  /\ created' = [created EXCEPT ![acct] = IF ok THEN @ + 1 ELSE @]
  /\ IF ok
       THEN /\ bFund' = [bFund EXCEPT ![acct] = "query"]
            /\ outgoingBalance' = 0
            /\ UNCHANGED bState
       ELSE /\ bFund' = [bFund EXCEPT ![acct] = "idle"]
            /\ bState' = [bState EXCEPT ![acct] = resetClientChannel(acct)]
            /\ UNCHANGED outgoingBalance
  /\ UNCHANGED <<currencyScale, storeVars, block, state, inVars, owedBalance, clientPaychan,
                 clientLedger, funding, fundTx, resp, due, transfers, bChannel, bPc, bErr,
                 idxCache, idxStore, idxWrites, bBlock, bClient, bPaychan, bCon,
                 bTimers, bLast, chan, bMap>>

\* getPaymentChannel returns to _fundOutgoingChannel: setClientChannel
\* records the client channel and the account is READY (it throws in any
\* state but PREPARING_CLIENT_CHANNEL), or the account is reset
FundChannelQueried(acct, ok) ==
  /\ bFund[acct] = "query"
  /\ bFund' = [bFund EXCEPT ![acct] = "idle"]
  /\ IF ~ok
       THEN /\ bState' = [bState EXCEPT ![acct] = resetClientChannel(acct)]
            /\ UNCHANGED <<bClient, clientPaychan>>
     ELSE IF bState[acct] # PREPARING_CLIENT_CHANNEL
       THEN UNCHANGED <<bState, bClient, clientPaychan>>
     ELSE /\ bState' = [bState EXCEPT ![acct] = READY]
          /\ bClient' = [bClient EXCEPT ![acct] = ClientChannel]
          /\ clientPaychan' = clientLedger
  /\ UNCHANGED <<currencyScale, storeVars, created, block, state, inVars, outgoingBalance, owedBalance,
                 clientLedger, funding, fundTx, resp, due, transfers, bChannel, bPc, bErr,
                 idxCache, idxStore, idxWrites, bBlock, bPaychan, bCon, bTimers,
                 bLast, chan, bMap>>

\* _handleCustomData, ilp branch: a PREPARE goes through
\* _handleIncomingPrepare, which refuses it with F02 unless the account is
\* READY and with another REJECT if it is not admitted; every other packet,
\* and an admitted PREPARE, is handed to the data handler
IlpMessage(acct, type, admitted) ==
  /\ bLast' = [bLast EXCEPT ![acct] =
       [protocol |-> "ilp", state |-> bState[acct], replay |-> FALSE,
        result |-> IF type # "PREPARE" THEN "handler"
                   ELSE IF bState[acct] # READY THEN "F02"
                   ELSE IF ~admitted THEN "reject"
                   ELSE "handler"]]
  /\ UNCHANGED <<currencyScale, storeVars, created, block, state, inVars, outVars, bindVars, bBlock,
                 bClient, bPaychan, bCon, bFund, bTimers, chan, bMap>>

\* _channelClose as the accounts see it: the account that _channelToAccount
\* holds for the channel is blocked (the _channelClaim that follows changes
\* none of these fields); for a channel it does not hold, _channelClose throws
WatcherChannelClose(ch) ==
  /\ IF bMap[ch] = "none"
       THEN UNCHANGED <<bState, bBlock>>
       ELSE /\ bState' = [bState EXCEPT ![bMap[ch]] = BLOCKED]
            /\ bBlock' = [bBlock EXCEPT ![bMap[ch]] = Blocked(ChannelClosing, ch)]
  /\ UNCHANGED <<currencyScale, storeVars, created, block, state, inVars, outVars, bChannel, bPc, bErr,
                 idxCache, idxStore, idxWrites, bClient, bPaychan, bCon, bFund,
                 bTimers, bLast, chan, bMap>>

\* _disconnect: Account.disconnect() of every account sets it BLOCKED and
\* unloads its keys from the cache of the store (the loads of a connect in
\* flight put them back)
Disconnect ==
  LET unload(key) == [p \in Accts |-> IF bCon[p].pc = "load" THEN key[p] ELSE "none"]
  IN  /\ bState' = [p \in Accts |-> BLOCKED]
      /\ bChannel' = unload(bChannel)
      /\ bClient' = unload(bClient)
      /\ bBlock' = [p \in Accts |-> IF bCon[p].pc = "load" THEN bBlock[p] ELSE NoBlock]
      /\ UNCHANGED <<currencyScale, storeVars, created, block, state, inVars, outVars, bPc, bErr,
                     idxCache, idxStore, idxWrites, bPaychan, bCon, bFund, bTimers,
                     bLast, chan, bMap>>

\* the owner of the channel asks the ledger to close it: the channel gets an
\* expiration
PeerClosesChannel(ch) ==
  /\ ~chan[ch].expiration
  /\ chan' = [chan EXCEPT ![ch] = [@ EXCEPT !.expiration = TRUE]]
  /\ UNCHANGED <<currencyScale, storeVars, created, block, state, inVars, outVars, bindVars, bBlock,
                 bClient, bPaychan, bCon, bFund, bTimers, bLast, bMap>>

\* no account binds a channel
BindIdle ==
  /\ bState = [p \in Accts |-> ESTABLISHING_CHANNEL]
  /\ bChannel = [p \in Accts |-> "none"]
  /\ bPc = [p \in Accts |-> BindIdlePc]
  /\ bErr = [p \in Accts |-> NoError]
  /\ idxCache = [c \in Chans |-> "absent"]
  /\ idxStore = [c \in Chans |-> "none"]
  /\ idxWrites = <<>>
  /\ bBlock = [p \in Accts |-> NoBlock]
  /\ bClient = [p \in Accts |-> "none"]
  /\ bPaychan = [p \in Accts |-> NoPaychan]
  /\ bCon = [p \in Accts |-> ConDone]
  /\ bFund = [p \in Accts |-> "idle"]
  /\ bTimers = [p \in Accts |-> 0]
  /\ bLast = [p \in Accts |-> NoLast]
  /\ chan = [c \in Chans |-> ValidDetails]
  /\ bMap = [c \in Chans |-> "none"]

----------------------------------------------------------------------------
(* The incoming side of one account that is READY on a bound channel:      *)
(* PREPAREs, claims, the auto-claim timer, `channel` refreshes, the peer   *)
(* on the ledger                                                           *)

PrepareAmounts == {1000, MaxPacketAmount, MaxPacketAmount + 1}

\* claim amounts the peer sends: small ones, one that is not a whole number
\* of drops at scale 7, and the channel's escrow and one base unit more
ClaimAmounts ==
  LET e == xrpToBase(InitialEscrow, currencyScale)
  IN  {1000, 2001, e, e + 1}

\* signatures the peer attaches to a claim of that amount
ClaimSigs(amount) ==
  LET d == baseToXrp(amount, currencyScale)
  IN  {NoSig, OtherSig(d), PeerSig(d), PeerSig(d + 1)}

FeeDrops == {10, 30}

\* the incoming side at rest, READY on a bound channel
InIdle ==
  /\ state = READY
  /\ prepared = 0
  /\ claim = NoClaim
  /\ lastClaimed = 0
  /\ ledger = [amount |-> InitialEscrow, balance |-> 0, closed |-> FALSE]
  /\ paychan = [amount |-> InitialEscrow]
  /\ pkt = [i \in Packets |-> NewPkt]
  /\ kept = 0
  /\ ahead = FALSE
  /\ cc = [p \in Callers |-> Idle]
  /\ reload = "idle"
  /\ block = NoBlock

InitIn ==
  /\ currencyScale \in Scales
  /\ StoreIdle
  /\ InIdle
  /\ OutIdle
  /\ BindIdle
  /\ chStore = bChannel

NextIn ==
  \/ \E i \in Packets, a \in PrepareAmounts \ {MaxPacketAmount + 1} :
       IlpPrepare(i, a, "other")
  \/ \E i \in Packets, r \in {"FULFILL", "REJECT"} : DataResponse(i, r)
  \/ \E i \in Packets : Expire(i)
  \/ \E a \in ClaimAmounts \ {xrpToBase(InitialEscrow, currencyScale) + 1} :
       HandleMoney(a, PeerSig(baseToXrp(a, currencyScale)))
  \/ AutoClaimStart
  \/ \E f \in FeeDrops : AutoClaimFee(f)
  \/ \E ok \in BOOLEAN : ChannelClaimQuery("auto", ok)
  \/ \E ok \in BOOLEAN : ChannelClaimSubmit("auto", ok)
  \/ ReloadStart
  \/ \E ok \in BOOLEAN : ReloadResume(ok)
  \/ PeerFunds
  \/ \E b \in {1000, 2000} : PeerPays(b)

SpecIn == InitIn /\ [][NextIn]_vars

----------------------------------------------------------------------------
(* Admission and claims of one account, every input of the peer included,  *)
(* up to and after the close of its channel                                *)

InitAdmit == InitIn

NextAdmit ==
  \/ \E i \in Packets, a \in PrepareAmounts, d \in {"peer.config", "other"} :
       IlpPrepare(i, a, d)
  \/ \E i \in Packets, r \in {"FULFILL", "REJECT"} : DataResponse(i, r)
  \/ \E i \in Packets : Expire(i)
  \/ \E i \in Packets : DataThrows(i)
  \/ \E a \in ClaimAmounts : \E sg \in ClaimSigs(a) : HandleMoney(a, sg)
  \/ \E c \in Chans : ChannelClose(c)
  \/ \E ok \in BOOLEAN : ChannelClaimQuery("close", ok)
  \/ \E ok \in BOOLEAN : ChannelClaimSubmit("close", ok)

SpecAdmit == InitAdmit /\ [][NextAdmit]_vars

----------------------------------------------------------------------------
(* PREPAREs that expire while the data handler is at work *)

InitExpire == InitIn

NextExpire ==
  \/ \E i \in Packets, a \in PrepareAmounts : IlpPrepare(i, a, "other")
  \/ \E i \in Packets, r \in {"FULFILL", "REJECT"} : DataResponse(i, r)
  \/ \E i \in Packets : ExpireFirst(i)
  \/ \E i \in Packets, r \in {"FULFILL", "REJECT", "throw"} : DataLate(i, r)
  \/ \E a \in ClaimAmounts : \E sg \in ClaimSigs(a) : HandleMoney(a, sg)

SpecExpire == InitExpire /\ [][NextExpire]_vars

----------------------------------------------------------------------------
(* The settlement of one READY account with an outgoing channel of         *)
(* OUTGOING_CHANNEL_DEFAULT_AMOUNT drops                                   *)

\* amounts of the PREPAREs the peer answers: zero, one that fits the channel
\* twice, and one above half the channel that is not a whole number of drops
\* at scale 7
SettleAmounts ==
  {0, xrpToBase(400000, currencyScale), xrpToBase(700000, currencyScale) + 1}

OwedAtStart == {0, 10}

InitOut ==
  /\ currencyScale \in Scales
  /\ StoreIdle
  /\ InIdle
  /\ BindIdle
  /\ outgoingBalance = 0
  /\ owedBalance \in OwedAtStart
  /\ clientPaychan = ClientDetails(OUTGOING_CHANNEL_DEFAULT_AMOUNT, 0)
  /\ clientLedger = ClientDetails(OUTGOING_CHANNEL_DEFAULT_AMOUNT, 0)
  /\ funding = FALSE
  /\ fundTx = NoFundTx
  /\ resp = [j \in Responses |-> NewResp]
  /\ due = owedBalance
  /\ transfers = NoTransfers
  /\ chStore = bChannel

NextOut ==
  \/ \E j \in Responses, t \in {"FULFILL", "T04", "F99"}, a \in SettleAmounts :
       HandlePrepareResponse(j, t, a)
  \/ \E j \in Responses, n \in BOOLEAN : SettleFulfill(j, n)
  \/ \E j \in Responses, n \in BOOLEAN : SettleT04(j, n)
  \/ \E ok \in BOOLEAN : FundSubmitted(ok)
  \/ \E ok \in BOOLEAN : FundReloaded(ok)
  \/ \E ok \in BOOLEAN : FundNotified(ok)

SpecOut == InitOut /\ [][NextOut]_vars

\* settlements around the funding threshold and the capacity of the client
\* channel: half the default amount, one unit more, and one unit more than
\* the whole of it
FundAmounts ==
  {xrpToBase(OUTGOING_CHANNEL_DEFAULT_AMOUNT \div 2, currencyScale),
   xrpToBase(OUTGOING_CHANNEL_DEFAULT_AMOUNT \div 2, currencyScale) + 1,
   xrpToBase(OUTGOING_CHANNEL_DEFAULT_AMOUNT, currencyScale) + 1}

\* nothing is owed at the start
InitFund == InitOut /\ owedBalance = 0

NextFund ==
  \/ \E j \in Responses, t \in {"FULFILL", "T04", "F99"}, a \in FundAmounts :
       HandlePrepareResponse(j, t, a)
  \/ \E j \in Responses, n \in BOOLEAN : SettleFulfill(j, n)
  \/ \E j \in Responses, n \in BOOLEAN : SettleT04(j, n)
  \/ \E ok \in BOOLEAN : FundSubmitted(ok)
  \/ \E ok \in BOOLEAN : FundReloaded(ok)
  \/ \E ok \in BOOLEAN : FundNotified(ok)

SpecFund == InitFund /\ [][NextFund]_vars

\* scales finer than a drop, and settlements of less than a drop and of one
\* drop at the finest of them
SignScales == {7, 9}
SignAmounts == {1, 100, 1000}
BalanceAtStart == {0, 990}

InitSign ==
  /\ currencyScale \in SignScales
  /\ StoreIdle
  /\ InIdle
  /\ BindIdle
  /\ outgoingBalance \in BalanceAtStart
  /\ owedBalance = 0
  /\ clientPaychan = ClientDetails(OUTGOING_CHANNEL_DEFAULT_AMOUNT, 0)
  /\ clientLedger = ClientDetails(OUTGOING_CHANNEL_DEFAULT_AMOUNT, 0)
  /\ funding = FALSE
  /\ fundTx = NoFundTx
  /\ resp = [j \in Responses |-> NewResp]
  /\ due = 0
  /\ transfers = NoTransfers
  /\ chStore = bChannel

NextSign ==
  \/ \E j \in Responses, t \in {"FULFILL", "T04", "F99"}, a \in SignAmounts :
       HandlePrepareResponse(j, t, a)
  \/ \E j \in Responses, n \in BOOLEAN : SettleFulfill(j, n)
  \/ \E j \in Responses, n \in BOOLEAN : SettleT04(j, n)

SpecSign == InitSign /\ [][NextSign]_vars

----------------------------------------------------------------------------
(* Two accounts and two channels: both accounts are new, or account b has  *)
(* come back READY on channel Y, which the backing store holds in its index *)

\* the channels as the ledger has them: X is fit to be bound, or its settle
\* delay is too low
LowDelay == Details(MIN_SETTLE_DELAY - 1, FALSE, FALSE, Address)

InitBind ==
  /\ currencyScale = XRP_DECIMALS
  /\ StoreIdle
  /\ InIdle
  /\ OutIdle
  /\ bPc = [p \in Accts |-> BindIdlePc]
  /\ bErr = [p \in Accts |-> NoError]
  /\ idxCache = [c \in Chans |-> "absent"]
  /\ idxWrites = <<>>
  /\ bBlock = [p \in Accts |-> NoBlock]
  /\ bCon = [p \in Accts |-> ConDone]
  /\ bFund = [p \in Accts |-> "idle"]
  /\ bLast = [p \in Accts |-> NoLast]
  /\ chan \in {[c \in Chans |-> IF c = "X" THEN d ELSE ValidDetails] :
                 d \in {ValidDetails, LowDelay}}
  /\ \/ /\ bState = [p \in Accts |-> ESTABLISHING_CHANNEL]
        /\ bChannel = [p \in Accts |-> "none"]
        /\ idxStore = [c \in Chans |-> "none"]
        /\ bClient = [p \in Accts |-> "none"]
        /\ bPaychan = [p \in Accts |-> NoPaychan]
        /\ bTimers = [p \in Accts |-> 0]
        /\ bMap = [c \in Chans |-> "none"]
     \/ /\ bState = [p \in Accts |-> IF p = "b" THEN READY ELSE ESTABLISHING_CHANNEL]
        /\ bChannel = [p \in Accts |-> IF p = "b" THEN "Y" ELSE "none"]
        /\ idxStore = [c \in Chans |-> IF c = "Y" THEN "b" ELSE "none"]
        /\ bClient = [p \in Accts |-> IF p = "b" THEN ClientChannel ELSE "none"]
        /\ bPaychan = [p \in Accts |-> IF p = "b" THEN ValidDetails ELSE NoPaychan]
        /\ bTimers = [p \in Accts |-> IF p = "b" THEN 1 ELSE 0]
        /\ bMap = [c \in Chans |-> IF c = "Y" THEN "b" ELSE "none"]
  /\ chStore = bChannel

NextBind ==
  \/ \E p \in Accts, c \in Chans, hasSig \in BOOLEAN, sigValid \in BOOLEAN :
       ChannelMessage(p, c, hasSig, sigValid)
  \/ \E p \in Accts, ok \in BOOLEAN : ChannelReloaded(p, ok)
  \/ \E p \in Accts, ok \in BOOLEAN : ChannelQueried(p, ok)
  \/ \E p \in Accts : ChannelLoaded(p)
  \/ IndexWritten

SpecBind == InitBind /\ [][NextBind]_vars

----------------------------------------------------------------------------
(* Claims and the auto-claim of one READY account whose last claimed       *)
(* amount is 12300 base units, with a claim for more stored                *)

ClaimEscrow == 20000        \* drops escrowed in the incoming channel
LastClaimedAtStart == 12300 \* base units claimed on the ledger so far

\* the stored claim at the start
StoredAtStart == {13900, 13901}

\* claim amounts the peer sends: the stored ones and a higher one
MoneyAmounts == StoredAtStart \cup {15000}

\* signatures the peer attaches to a claim of that amount: none, a valid
\* one, and the valid one written in upper case
MoneySigs(amount) ==
  LET d == baseToXrp(amount, currencyScale)
  IN  {NoSig, PeerSig(d), PeerSigUpper(d)}

\* what getFee returns, in drops
ClaimFees == {1, 16, 17}

\* balances the peer pays on the ledger itself, in drops
PeerPayments == {1390, 13900, 15000}

InitClaim ==
  /\ currencyScale \in Scales
  /\ StoreIdle
  /\ state = READY
  /\ prepared = 0
  /\ \E a \in StoredAtStart :
       claim = [amount |-> a, sig |-> PeerSig(baseToXrp(a, currencyScale))]
  /\ lastClaimed = LastClaimedAtStart
  /\ ledger = [amount |-> ClaimEscrow,
               balance |-> baseToXrp(LastClaimedAtStart, currencyScale),
               closed |-> FALSE]
  /\ paychan = [amount |-> ClaimEscrow]
  /\ pkt = [i \in Packets |-> NewPkt]
  /\ kept = 0
  /\ ahead = FALSE
  /\ cc = [p \in Callers |-> Idle]
  /\ reload = "idle"
  /\ block = NoBlock
  /\ OutIdle
  /\ BindIdle
  /\ chStore = bChannel

NextClaim ==
  \/ \E a \in MoneyAmounts : \E sg \in MoneySigs(a) : HandleMoney(a, sg)
  \/ AutoClaimStart
  \/ \E f \in ClaimFees : AutoClaimFee(f)
  \/ \E ok \in BOOLEAN : ChannelClaimQuery("auto", ok)
  \/ \E ok \in BOOLEAN : ChannelClaimSubmit("auto", ok)
  \/ \E b \in PeerPayments : PeerPays(b)

SpecClaim == InitClaim /\ [][NextClaim]_vars

\* the same account with an auto-claim interval shorter than its ledger I/O:
\* a tick may start while the one before is suspended
Ticks == {"auto", "auto2"}

InitTicks == InitClaim

NextTicks ==
  \/ \E a \in MoneyAmounts : \E sg \in MoneySigs(a) : HandleMoney(a, sg)
  \/ \E t \in Ticks : AutoClaimStartOf(t)
  \/ \E t \in Ticks, f \in ClaimFees : AutoClaimFeeOf(t, f)
  \/ \E t \in Ticks, ok \in BOOLEAN : ChannelClaimQuery(t, ok)
  \/ \E t \in Ticks, ok \in BOOLEAN : ChannelClaimSubmit(t, ok)

SpecTicks == InitTicks /\ [][NextTicks]_vars

----------------------------------------------------------------------------
(* The lifecycle of account a, which is new or comes back with channel X   *)
(* persisted, from its connect on                                          *)

\* channel X as the ledger has it: fit to be bound, or breaking one or two
\* of the rules
LedgerDetails ==
  {ValidDetails, LowDelay,
   Details(MIN_SETTLE_DELAY, TRUE, TRUE, Address),
   Details(MIN_SETTLE_DELAY, FALSE, TRUE, "other"),
   Details(MIN_SETTLE_DELAY, FALSE, FALSE, "other")}

InitLife ==
  /\ currencyScale = XRP_DECIMALS
  /\ StoreIdle
  /\ InIdle
  /\ OutIdle
  /\ bState = [p \in Accts |-> INITIAL]
  /\ bPc = [p \in Accts |-> BindIdlePc]
  /\ bErr = [p \in Accts |-> NoError]
  /\ idxCache = [c \in Chans |-> "absent"]
  /\ idxWrites = <<>>
  /\ bPaychan = [p \in Accts |-> NoPaychan]
  /\ bCon = [p \in Accts |-> ConIdle]
  /\ bFund = [p \in Accts |-> "idle"]
  /\ bTimers = [p \in Accts |-> 0]
  /\ bLast = [p \in Accts |-> NoLast]
  /\ bMap = [c \in Chans |-> "none"]
  /\ \E d \in LedgerDetails :
       chan = [c \in Chans |-> IF c = "X" THEN d ELSE ValidDetails]
  /\ \/ /\ bChannel = [p \in Accts |-> "none"]
        /\ bClient = [p \in Accts |-> "none"]
        /\ bBlock = [p \in Accts |-> NoBlock]
        /\ idxStore = [c \in Chans |-> "none"]
     \/ /\ bChannel = [p \in Accts |-> IF p = "a" THEN "X" ELSE "none"]
        /\ \E cl \in {"none", ClientChannel} :
             bClient = [p \in Accts |-> IF p = "a" THEN cl ELSE "none"]
        /\ \E bl \in {NoBlock, Blocked(ChannelClosing, "X")} :
             bBlock = [p \in Accts |-> IF p = "a" THEN bl ELSE NoBlock]
        /\ idxStore = [c \in Chans |-> IF c = "X" THEN "a" ELSE "none"]
  /\ chStore = bChannel

NextLife ==
  \/ Connect("a")
  \/ ConnectLoaded("a")
  \/ \E r \in ConnectResults : ConnectChannelQueried("a", r)
  \/ \E r \in ConnectResults : ConnectClientQueried("a", r)
  \/ ConnectRetry("a")
  \/ \E ok \in BOOLEAN : ConnectClaimed("a", ok)
  \/ \E c \in Chans, hasSig \in BOOLEAN, sigValid \in BOOLEAN :
       ChannelMessage("a", c, hasSig, sigValid)
  \/ \E ok \in BOOLEAN : ChannelReloaded("a", ok)
  \/ \E ok \in BOOLEAN : ChannelQueried("a", ok)
  \/ ChannelLoaded("a")
  \/ IndexWritten
  \/ \E escrowed \in BOOLEAN : FundChannelMessage("a", escrowed)
  \/ \E ok \in BOOLEAN : FundChannelCreated("a", ok)
  \/ \E ok \in BOOLEAN : FundChannelQueried("a", ok)
  \/ \E type \in {"PREPARE", "FULFILL"}, admitted \in BOOLEAN :
       IlpMessage("a", type, admitted)
  \/ \E c \in Chans : WatcherChannelClose(c)
  \/ Disconnect
  \/ PeerClosesChannel("X")

SpecLife == InitLife /\ [][NextLife]_vars

----------------------------------------------------------------------------
(* One connected account that binds a channel and asks for a client        *)
(* channel, with no disconnect                                             *)

InitFundChannel == InitBind

NextFundChannel ==
  \/ \E c \in Chans, hasSig \in BOOLEAN, sigValid \in BOOLEAN :
       ChannelMessage("a", c, hasSig, sigValid)
  \/ \E ok \in BOOLEAN : ChannelReloaded("a", ok)
  \/ \E ok \in BOOLEAN : ChannelQueried("a", ok)
  \/ ChannelLoaded("a")
  \/ IndexWritten
  \/ \E escrowed \in BOOLEAN : FundChannelMessage("a", escrowed)
  \/ \E ok \in BOOLEAN : FundChannelCreated("a", ok)
  \/ \E ok \in BOOLEAN : FundChannelQueried("a", ok)

SpecFundChannel == InitFundChannel /\ [][NextFundChannel]_vars

----------------------------------------------------------------------------
(* The store wrapper alone, at the keys channel:<id> of an empty store *)

InitStore ==
  /\ currencyScale = XRP_DECIMALS
  /\ StoreIdle
  /\ InIdle
  /\ OutIdle
  /\ BindIdle
  /\ chStore = bChannel

NextStore ==
  \/ \E k \in Chans, v \in Accts : StoreSet(k, v)
  \/ \E k \in Chans : StoreDelete(k)
  \/ \E k \in Chans : StoreLoad(k)
  \/ \E k \in Chans : StoreLoaded(k)
  \/ IndexWritten

SpecStore == InitStore /\ [][NextStore]_vars

\* the same with a backing store whose put and del may fail
InitStoreFail == InitStore

NextStoreFail ==
  \/ \E k \in Chans, v \in Accts : StoreSet(k, v)
  \/ \E k \in Chans : StoreDelete(k)
  \/ \E k \in Chans : StoreLoad(k)
  \/ \E k \in Chans : StoreLoaded(k)
  \/ IndexWritten
  \/ IndexWriteFails
  \/ IndexWriteSkipped

SpecStoreFail == InitStoreFail /\ [][NextStoreFail]_vars

----------------------------------------------------------------------------
(* Account.connect and _connect of account a alone, over what the store    *)
(* and the ledger may hold when it connects                                *)

\* the balance, incoming claim and last claimed amount persisted for an
\* account with a channel
StoredAtConnect ==
  {[prepared |-> 0, claim |-> NoClaim, lastClaimed |-> 0],
   [prepared |-> 500, claim |-> [amount |-> 400, sig |-> PeerSig(400)],
    lastClaimed |-> 300]}

\* the block keys persisted: none, a block with its reason, a block flag
\* without a reason
BlocksAtConnect == {NoBlock, Blocked(ChannelClosing, "X"), Blocked("", "")}

\* the outgoing balance persisted, and what the peer has claimed of the
\* client channel on the ledger, in drops
OutgoingAtConnect == {0, 2000000}
ClientClaimed == 1000000

InitConnect ==
  /\ currencyScale = XRP_DECIMALS
  /\ StoreIdle
  /\ state = READY
  /\ paychan = [amount |-> InitialEscrow]
  /\ pkt = [i \in Packets |-> NewPkt]
  /\ kept = 0
  /\ ahead = FALSE
  /\ cc = [p \in Callers |-> Idle]
  /\ reload = "idle"
  /\ block = NoBlock
  /\ owedBalance = 0
  /\ clientPaychan = ClientDetails(0, 0)
  /\ funding = FALSE
  /\ fundTx = NoFundTx
  /\ resp = [j \in Responses |-> NewResp]
  /\ due = 0
  /\ transfers = NoTransfers
  /\ bState = [p \in Accts |-> INITIAL]
  /\ bPc = [p \in Accts |-> BindIdlePc]
  /\ bErr = [p \in Accts |-> NoError]
  /\ idxCache = [c \in Chans |-> "absent"]
  /\ idxWrites = <<>>
  /\ bPaychan = [p \in Accts |-> NoPaychan]
  /\ bCon = [p \in Accts |-> ConIdle]
  /\ bFund = [p \in Accts |-> "idle"]
  /\ bTimers = [p \in Accts |-> 0]
  /\ bLast = [p \in Accts |-> NoLast]
  /\ bMap = [c \in Chans |-> "none"]
  /\ \E d \in LedgerDetails :
       chan = [c \in Chans |-> IF c = "X" THEN d ELSE ValidDetails]
  /\ \E bl \in BlocksAtConnect :
       bBlock = [p \in Accts |-> IF p = "a" THEN bl ELSE NoBlock]
  /\ \E ch \in {"none", "X"} :
       /\ bChannel = [p \in Accts |-> IF p = "a" THEN ch ELSE "none"]
       /\ idxStore = [c \in Chans |-> IF c = ch THEN "a" ELSE "none"]
       /\ \E st \in IF ch = "none" THEN {CHOOSE z \in StoredAtConnect : z.prepared = 0}
                    ELSE StoredAtConnect :
            /\ prepared = st.prepared
            /\ claim = st.claim
            /\ lastClaimed = st.lastClaimed
            /\ ledger = [amount |-> InitialEscrow, balance |-> st.lastClaimed,
                         closed |-> FALSE]
       /\ \E cl \in IF ch = "none" THEN {"none"} ELSE {"none", ClientChannel} :
            /\ bClient = [p \in Accts |-> IF p = "a" THEN cl ELSE "none"]
            /\ IF cl = "none"
                 THEN /\ outgoingBalance = 0
                      /\ clientLedger = ClientDetails(0, 0)
                 ELSE /\ outgoingBalance \in OutgoingAtConnect
                      /\ clientLedger = ClientDetails(OUTGOING_CHANNEL_DEFAULT_AMOUNT,
                                                      ClientClaimed)
  /\ chStore = bChannel

NextConnect ==
  \/ Connect("a")
  \/ ConnectLoaded("a")
  \/ \E r \in ConnectResults : ConnectChannelQueried("a", r)
  \/ \E r \in ConnectResults : ConnectClientQueried("a", r)
  \/ ConnectRetry("a")
  \/ \E ok \in BOOLEAN : ConnectClaimed("a", ok)

SpecConnect == InitConnect /\ [][NextConnect]_vars

\* the lookups of the ledger time out or succeed
RetryResults == {"ok", "TimeoutError"}

NextRetry ==
  \/ Connect("a")
  \/ ConnectLoaded("a")
  \/ \E r \in RetryResults : ConnectChannelQueried("a", r)
  \/ \E r \in RetryResults : ConnectClientQueried("a", r)
  \/ ConnectRetry("a")
  \/ \E ok \in BOOLEAN : ConnectClaimed("a", ok)

\* the loads return, the retry delay ends, and a lookup that is made again
\* and again succeeds in the end
SpecRetry ==
  /\ InitConnect
  /\ [][NextRetry]_vars
  /\ WF_vars(Connect("a"))
  /\ WF_vars(ConnectLoaded("a"))
  /\ WF_vars(ConnectRetry("a"))
  /\ SF_vars(ConnectChannelQueried("a", "ok"))
  /\ SF_vars(ConnectClientQueried("a", "ok"))

----------------------------------------------------------------------------
(* Properties *)

\* the PREPAREd amount not yet covered by a claim
unsecured == prepared - getIncomingClaim.amount

atEscrow(more) ==
  LET amount == xrpToBase(paychan.amount + more, currencyScale)
  IN  handleClaim(amount, PeerSig(paychan.amount + more))

\* C3: _handleClaim stores a claim only if it carries a signature, the
\* signature verifies for the claim's drops and the drops are at most the
\* channel's escrow; a claim for exactly the escrow is accepted and one drop
\* more is refused as exceeding the channel balance; a refused claim is not
\* stored
C3_ClaimValidated ==
  /\ \A a \in ClaimAmounts : \A sg \in ClaimSigs(a) :
       LET r == handleClaim(a, sg)
           d == baseToXrp(a, currencyScale)
       IN  /\ r.store => /\ sg # NoSig
                         /\ sg.signer = "peer" /\ sg.drops = d
                         /\ d <= paychan.amount
           /\ r.err # "" => ~r.store
           /\ sg = NoSig => r.err = "signature must be provided on claim"
  /\ atEscrow(0).err = ""
  /\ atEscrow(1).err = "Invalid claim: claim amount exceeds channel balance"
  /\ claim # NoClaim =>
       /\ verify(baseToXrp(claim.amount, currencyScale), claim.sig)
       /\ baseToXrp(claim.amount, currencyScale) <= paychan.amount

\* a claim for exactly the escrow has been stored
C3_Witness == baseToXrp(claim.amount, currencyScale) = paychan.amount

\* C4: _sendMoneyToAccount never returns a claim whose cumulative drops
\* exceed the escrow of the client channel: it throws instead, returns no
\* claim and leaves the outgoing balance unchanged; every claim handed out so
\* far is within the escrow
C4_ClaimWithinCapacity ==
  /\ \A t \in SettleAmounts \cup {getOwedBalance} :
       LET r == sendMoneyToAccount(t, FALSE)
           d == baseToXrp(outgoingBalance + t, currencyScale)
       IN  /\ r.ok => r.drops = d /\ d <= clientPaychan.amount
           /\ d > clientPaychan.amount => ~r.ok /\ r.balance = outgoingBalance
           /\ ~r.ok => r.balance = outgoingBalance
  /\ baseToXrp(outgoingBalance, currencyScale) <= clientPaychan.amount

\* after a transfer the channel cannot take even the owed balance
C4_Witness ==
  /\ transfers.count >= 1
  /\ getOwedBalance > 0
  /\ baseToXrp(outgoingBalance + getOwedBalance, currencyScale) > clientPaychan.amount
  /\ ~sendMoneyToAccount(getOwedBalance, FALSE).ok

AlreadyAssociated == "this channel has already been associated with a different account"

\* C5: a channel id is never bound to two accounts, whatever the
\* interleaving of `channel` messages and of the loads of the index in
\* flight; the later account is refused with 'this channel has already been
\* associated with a different account', naming itself and the account that
\* holds the channel; an account that has a channel never adopts another id
C5_ChannelBoundOnce ==
  [][/\ \A p \in Accts, q \in Accts :
          p # q /\ bChannel'[p] # "none" => bChannel'[q] # bChannel'[p]
     /\ \A p \in Accts :
          /\ bChannel[p] # "none" => bChannel'[p] = bChannel[p]
          /\ bPc[p].pc = "load" /\ bPc'[p].pc = "idle" =>
               LET holder == idxCache'[bPc[p].channel]
               IN  IF holder \in Accts \ {p}
                     THEN /\ bChannel'[p] = "none"
                          /\ bChannel'[holder] = bPc[p].channel
                          /\ bErr'[p] =
                               [msg |-> AlreadyAssociated,
                                account |-> p, associated |-> holder]
                     ELSE bErr'[p].associated = ""]_vars

\* both accounts were new and asked for channel X; b holds it and a, whose
\* load was in flight, was refused
C5_Witness ==
  /\ idxStore["Y"] = "none"
  /\ bChannel["b"] = "X"
  /\ bChannel["a"] = "none"
  /\ bErr["a"].associated = "b"
  /\ idxStore["X"] = "none"

\* C6: whatever the order of FULFILL settlements and T04 settlements, and
\* whichever of them fail to produce a claim, the growth of the outgoing
\* balance plus the owed balance equals the owed balance at the start plus
\* the amounts of the fulfilled PREPAREs settled
C6_SettlementConserves == outgoingBalance + getOwedBalance = due

\* a T04 has paid the owed balance of the start and a later settlement failed
C6_Witness ==
  /\ transfers.count >= 1
  /\ transfers.amount = 10
  /\ getOwedBalance > 0
  /\ \A j \in Responses : resp[j].st = "done"

firstFailure(amount) ==
  IF state # READY THEN "F02"
  ELSE IF amount > MaxPacketAmount THEN "F08"
  ELSE IF prepared + amount - getIncomingClaim.amount > Bandwidth THEN "T04"
  ELSE IF prepared + amount > paychan.amount THEN "T04funds"
  ELSE "ok"

\* C8: the checks run in the order F02 (not READY), F08 (amount above
\* maxPacketAmount, an equal amount passes), T04 bandwidth (prepared + amount
\* - last claim above the bandwidth, which is the `used` of the message), T04
\* funds (prepared + amount above the escrow read in drops); a PREPARE that
\* fails leaves prepared unchanged and does not reach the data handler
C8_AdmissionOrder ==
  [][/\ \A a \in PrepareAmounts :
          /\ admission(a).code = firstFailure(a)
          /\ admission(a).code = "T04" =>
               admission(a).used = prepared + a - getIncomingClaim.amount
     /\ \A i \in Packets :
          pkt[i].st = "new" /\ pkt'[i].st # "new" =>
            IF pkt'[i].st = "failed"
              THEN /\ prepared' = prepared
                   /\ \E a \in PrepareAmounts : firstFailure(a) # "ok"
              ELSE \E a \in PrepareAmounts :
                     firstFailure(a) = "ok" /\ prepared' = prepared + a]_vars

\* a PREPARE has been refused in a state where the funds check is the one
\* that fails for some amount and the bandwidth check for another has passed
C8_Witness ==
  /\ \E i \in Packets : pkt[i].st = "failed"
  /\ \E a \in PrepareAmounts : admission(a).code = "T04funds"
  /\ admission(MaxPacketAmount).code # "F08"

C14_OnlyHigherClaimReplaces ==
  [][/\ claim' # claim =>
          /\ claim'.amount > getIncomingClaim.amount
          /\ verify(baseToXrp(claim'.amount, currencyScale), claim'.sig)
     /\ \A a \in MoneyAmounts : \A sg \in MoneySigs(a) \ {NoSig} :
          /\ handleClaim(a, sg).err = ""
          /\ handleClaim(a, sg).store <=> a > getIncomingClaim.amount]_vars

\* the claim of 13901 was replaced by the one of 15000; the same amount
\* under the other signature, and the lower amount, are now ignored
C14_Witness ==
  /\ claim = [amount |-> 15000,
              sig |-> PeerSig(baseToXrp(15000, currencyScale))]
  /\ handleClaim(15000, PeerSigUpper(baseToXrp(15000, currencyScale)))
       = [err |-> "", store |-> FALSE]
  /\ handleClaim(13901, PeerSig(baseToXrp(13901, currencyScale)))
       = [err |-> "", store |-> FALSE]

\* C11: BLOCKED is terminal: no step takes an account that is BLOCKED to
\* another state, the resumption of a connect, of a channel or client
\* channel load, of an adoption or of a fund_channel included
C11_BlockedIsTerminal ==
  [][\A p \in Accts : bState[p] = BLOCKED => bState'[p] = BLOCKED]_vars

\* C12: a `channel` message is processed only in READY or
\* ESTABLISHING_CHANNEL, a fund_channel message only in
\* ESTABLISHING_CLIENT_CHANNEL and an ilp message of any packet type only in
\* READY; in any other state the handler fails (ilp: with an F02 REJECT) and
\* the data handler is not called
C12_DispatcherGuards ==
  \A p \in Accts :
    LET l == bLast[p]
    IN  /\ l.protocol = "channel" /\ l.state \notin {READY, ESTABLISHING_CHANNEL} =>
             l.result = "state"
        /\ l.protocol = "fund_channel" /\ l.state # ESTABLISHING_CLIENT_CHANNEL =>
             l.result = "state"
        /\ l.protocol = "ilp" /\ l.state # READY => l.result = "F02"

\* C13: the `channel` message with a valid proof for the channel the
\* account has already bound does not fail, whatever state the adoption left
\* the account in, and no second auto-claim interval is set
C13_ReplayIsNoOp ==
  \A p \in Accts :
    /\ bLast[p].replay => bLast[p].result = "accepted"
    /\ bTimers[p] <= 1

\* details as _validatePaychanDetails may get them
PaychanInputs ==
  [settleDelay : {1, MIN_SETTLE_DELAY - 1, MIN_SETTLE_DELAY, MIN_SETTLE_DELAY + 1},
   cancelAfter : BOOLEAN, expiration : BOOLEAN, destination : {Address, "other"}]

\* C15: _validatePaychanDetails accepts a channel iff its settle delay is at
\* least MIN_SETTLE_DELAY, it has no cancelAfter and no expiration and its
\* destination is the server's address; else it throws the error of the
\* first rule broken, in that order
C15_ValidationOrder ==
  \A d \in PaychanInputs \cup {chan[c] : c \in Chans} :
    LET rules == <<d.settleDelay >= MIN_SETTLE_DELAY, ~d.cancelAfter,
                   ~d.expiration, d.destination = Address>>
        errors == <<SettleDelayTooLow, HasCancelAfter, IsClosing, WrongDestination>>
        broken == {i \in 1 .. 4 : ~rules[i]}
    IN  /\ validatePaychanDetails(d) = "" <=> broken = {}
        /\ broken # {} =>
             \E i \in broken : /\ \A j \in broken : i <= j
                               /\ validatePaychanDetails(d) = errors[i]

\* channel X has a cancelAfter and an expiration, and the adoption of it was
\* refused for the cancelAfter
C15_Witness ==
  /\ chan["X"].cancelAfter /\ chan["X"].expiration
  /\ bErr["a"] = Error(HasCancelAfter)
  /\ bState["a"] = ESTABLISHING_CHANNEL

\* C16: the details recorded for the channel of an account that is not
\* blocked, by the adoption, by the connect or by the reload of a replayed
\* `channel` message, satisfy the four rules
C16_RecordedDetailsValid ==
  \A p \in Accts :
    /\ bChannel[p] # "none"
    /\ bState[p] # BLOCKED
    /\ bCon[p].pc \in {"idle", "done"}
    /\ bPaychan[p] # NoPaychan
    => validatePaychanDetails(bPaychan[p]) = ""

\* the fee of `feeDrops` drops is at most maxFeePercent of the income
feeWithinPercent(income, feeDrops) ==
  xrpToBase(feeDrops, currencyScale) * 100 <= MaxFeePercentTimes100 * income

\* C17: _autoClaim goes on to claim on the ledger iff the income, the
\* incoming claim's amount minus lastClaimedAmount, is above 0 and the fee
\* in base units divided by the income is at most maxFeePercent, a ratio
\* equal to maxFeePercent included; from 12300 to 13901 a fee of 16 base
\* units claims and a fee of 17 does not
C17_AutoClaimIffProfitable ==
  [][cc["auto"].pc = "fee" =>
       LET income == cc["auto"].amount
       IN  /\ \A f \in ClaimFees :
                isClaimProfitable(income, f) <=>
                  (income > 0 /\ feeWithinPercent(income, f))
           /\ currencyScale = XRP_DECIMALS /\ income = 13901 - LastClaimedAtStart =>
                isClaimProfitable(income, 16) /\ ~isClaimProfitable(income, 17)
           /\ cc'["auto"].pc = "query" =>
                /\ \E f \in ClaimFees : isClaimProfitable(income, f)
                /\ lastClaimed' = getIncomingClaim.amount
           /\ cc'["auto"].pc = "idle" =>
                /\ \E f \in ClaimFees : ~isClaimProfitable(income, f)
                /\ lastClaimed' = lastClaimed]_vars

\* from 12300 to 13901 at scale 6, where only the fees of 1 and of 16 drops
\* are within one percent: the auto-claim went on to query the ledger
C17_Witness ==
  /\ currencyScale = XRP_DECIMALS
  /\ ledger.balance = LastClaimedAtStart
  /\ cc["auto"] = [pc |-> "query", amount |-> 13901, sig |-> PeerSig(13901)]
  /\ ~feeWithinPercent(13901 - LastClaimedAtStart, 17)

\* C18: a failed submission of an auto-claim does not make the claim look
\* claimed: when no auto-claim is in progress and the ledger has not paid
\* the stored claim, the income the next tick computes is above 0, so that
\* it claims again
C18_FailedAutoClaimRetried ==
  /\ cc["auto"].pc = "idle"
  /\ ledger.balance < baseToXrp(claim.amount, currencyScale)
  => getIncomingClaim.amount - lastClaimed > 0

\* C19: _channelClaim submits nothing when the channel's balance on the
\* ledger covers the claim, and sets lastClaimedAmount to that balance; else
\* it hands one preparePaymentChannelClaim to the txSubmitter, with the
\* claim's amount in XRP, its signature in upper case, the channel's public
\* key, the channel id and the close flag; a failure of the query or of the
\* submission is thrown as 'Error submitting claim'
C19_ChannelClaimSkipsOrSubmits ==
  [][\A p \in DOMAIN cc :
       LET covered == ledger.balance >= baseToXrp(cc[p].amount, currencyScale)
           tx == claimTx(p)
       IN  /\ cc[p].pc = "query" =>
                /\ channelClaimQuery(p, TRUE) =
                     IF covered
                       THEN [last |-> xrpToBase(ledger.balance, currencyScale),
                             submit |-> FALSE, err |-> ""]
                       ELSE [last |-> lastClaimed, submit |-> TRUE, err |-> ""]
                /\ channelClaimQuery(p, FALSE) =
                     [last |-> lastClaimed, submit |-> FALSE,
                      err |-> ErrorSubmittingClaim]
                /\ cc'[p].pc = "submit" => ~covered /\ lastClaimed' = lastClaimed
                /\ cc'[p].pc # "query" => ledger' = ledger
                /\ cc'[p].pc = "idle" /\ lastClaimed' # lastClaimed =>
                     covered /\ lastClaimed' = xrpToBase(ledger.balance, currencyScale)
           /\ cc[p].pc = "submit" =>
                /\ tx = [balance |-> baseToXrp(cc[p].amount, currencyScale),
                         signature |-> [signer |-> "peer", drops |-> tx.balance,
                                        hex |-> "upper"],
                         publicKey |-> PublicKey, close |-> (p = "close"),
                         channel |-> getChannel]
                /\ channelClaimSubmit(p, FALSE) =
                     [ledger |-> ledger, err |-> ErrorSubmittingClaim]
                /\ channelClaimSubmit(p, TRUE).err = ""
                /\ cc'[p].pc = "idle" =>
                     ledger' \in {ledger, channelClaimSubmit(p, TRUE).ledger}]_vars

\* the claim of 13901 drops was submitted and the ledger has paid it
C19_Witness ==
  /\ currencyScale = XRP_DECIMALS
  /\ cc["auto"].pc = "idle"
  /\ claim.amount = 13901
  /\ lastClaimed = 13901
  /\ ledger.balance = 13901

----------------------------------------------------------------------------
(* Funding of the client channel *)

\* C21: at most one funding transaction of the client channel is in flight
\* at any time: a funding is started only when none is under way
C21_OneFundingInFlight == fundTx.submitting <= 1

\* the drops a settlement of response j asks _sendMoneyToAccount to sign
settleDrops(j) ==
  LET transferAmount == IF resp[j].st = "fulfill"
                          THEN getOwedBalance + resp[j].amount
                          ELSE resp[j].owed
  IN  baseToXrp(outgoingBalance + transferAmount, currencyScale)

\* a step has called util.fundChannel
fundingStarted == fundTx'.submitting = fundTx.submitting + 1

\* C22: a settlement that reaches the channel starts a funding exactly when
\* no funding is flagged and the drops to sign are strictly more than the
\* escrow of the client channel less 500000 drops, whether or not the claim
\* is then refused for want of capacity
C22_FundsAboveThreshold ==
  [][\A j \in Responses :
       SettleFulfill(j, FALSE) \/ SettleT04(j, FALSE) =>
         (fundingStarted <=>
            /\ ~funding
            /\ settleDrops(j) > clientPaychan.amount - 500000)]_vars

\* a settlement refused for want of capacity has started a funding
C22_Witness ==
  /\ fundTx = [NoFundTx EXCEPT !.submitting = 1]
  /\ funding
  /\ outgoingBalance = 0
  /\ transfers.count = 0
  /\ owedBalance >= xrpToBase(OUTGOING_CHANNEL_DEFAULT_AMOUNT, currencyScale) + 1

\* the base units of one drop
unitsPerDrop == Pow10(currencyScale - XRP_DECIMALS)

\* C27: the drops signed in an outgoing claim are the cumulative outgoing
\* balance in drops rounded up: they cover the balance and exceed it by less
\* than one drop, however many settlements were rounded before
C27_SignedDropsRoundUpOnce ==
  transfers.count > 0 =>
    /\ transfers.drops * unitsPerDrop >= outgoingBalance
    /\ (transfers.drops - 1) * unitsPerDrop < outgoingBalance

\* at scale 9 two settlements of 100 on a balance of 990 have signed 2 drops
\* and 2 drops again
C27_Witness ==
  /\ currencyScale = 9
  /\ transfers = [count |-> 2, amount |-> 100, drops |-> 2]
  /\ outgoingBalance = 1190

\* C28: the settlement a T04 REJECT sets off pays exactly what is owed when
\* it is made: either a TRANSFER of the owed balance is sent and the owed
\* balance becomes 0, or nothing is sent and the owed balance stays; a REJECT
\* with another code settles nothing
C28_T04SettlesOwed ==
  [][\A j \in Responses :
       /\ resp[j].st = "t04" /\ resp'[j].st = "done" =>
            \/ /\ transfers'.count = transfers.count + 1
               /\ transfers'.amount = owedBalance
               /\ outgoingBalance' = outgoingBalance + owedBalance
               /\ owedBalance' = 0
            \/ /\ transfers' = transfers
               /\ outgoingBalance' = outgoingBalance
               /\ owedBalance' = owedBalance
       /\ resp[j].st = "new" /\ resp'[j].st = "done" =>
            UNCHANGED <<outgoingBalance, owedBalance, transfers>>]_vars

----------------------------------------------------------------------------
(* Account.connect *)

\* C25: connect runs from INITIAL only; with every lookup succeeding it
\* leaves the account BLOCKED when the block flag is persisted (with the
\* stored reason, or the default one if none is stored), ESTABLISHING_CHANNEL
\* when no channel is persisted, ESTABLISHING_CLIENT_CHANNEL when a channel
\* but no client channel is, and READY when both are
C25_ConnectOutcome ==
  [][/\ Connect("a") => bState["a"] = INITIAL
     /\ bState["a"] # INITIAL => connectAssert("a")
     /\ ConnectLoaded("a") /\ bBlock["a"].flag =>
          /\ bState'["a"] = BLOCKED
          /\ bCon'["a"].pc = "done"
          /\ getBlockReason("a")' = IF bBlock["a"].reason = ""
                                      THEN "channel must be re-established"
                                      ELSE bBlock["a"].reason
     /\ ConnectLoaded("a") /\ ~bBlock["a"].flag /\ bChannel["a"] = "none" =>
          /\ bState'["a"] = ESTABLISHING_CHANNEL
          /\ bCon'["a"].pc = "done"
     /\ ConnectChannelQueried("a", "ok") /\ bClient["a"] = "none" =>
          /\ bState'["a"] = ESTABLISHING_CLIENT_CHANNEL
          /\ bCon'["a"].pc \in {"done", "claim"}
     /\ ConnectClientQueried("a", "ok") =>
          /\ bState'["a"] = READY
          /\ bChannel["a"] # "none" /\ bClient["a"] # "none"
          /\ bCon'["a"].pc \in {"done", "claim"}]_vars

\* an account whose block flag was persisted without a reason has connected
C25_Witness ==
  /\ bCon["a"].pc = "done"
  /\ bState["a"] = BLOCKED
  /\ bBlock["a"] = Blocked("", "")
  /\ getBlockReason("a") = DEFAULT_BLOCK_REASON

\* C26: when the persisted incoming channel is not found on the ledger at
\* connect, the account is blocked and the block persisted, the last claimed
\* amount is taken off the balance, the channel id, the incoming claim and
\* the last claimed amount are deleted, no channel is mapped to the account,
\* and _connect rejects
C26_LostChannelAtConnect ==
  [][ConnectChannelQueried("a", "entryNotFound") =>
       /\ bState'["a"] = BLOCKED
       /\ bBlock'["a"].flag
       /\ prepared' = prepared - lastClaimed
       /\ bChannel'["a"] = "none"
       /\ claim' = NoClaim
       /\ lastClaimed' = 0
       /\ \A c \in Chans : bMap'[c] # "a"
       /\ bCon'["a"].pc = "done"
       /\ connectError("a", bState["a"])' = BlockedAccount]_vars

\* a channel with a balance of 500, of which 300 were claimed, was lost
C26_Witness ==
  /\ bState["a"] = BLOCKED
  /\ bBlock["a"] = Blocked("channel cannot be loaded. channelId=", "X")
  /\ bChannel["a"] = "none"
  /\ prepared = 200
  /\ claim = NoClaim
  /\ lastClaimed = 0

\* C29: when the client channel is recorded by setClientChannel or loaded by
\* _connectClientChannel, the outgoing balance becomes the larger of what it
\* was and the balance of the client channel on the ledger in base units
C29_OutgoingAtLeastLedger ==
  [][/\ ConnectClientQueried("a", "ok") =>
          outgoingBalance' =
            Max(outgoingBalance, xrpToBase(clientLedger.balance, currencyScale))
     /\ FundChannelQueried("a", TRUE) /\ bState["a"] = PREPARING_CLIENT_CHANNEL =>
          outgoingBalance' =
            Max(outgoingBalance, xrpToBase(clientLedger.balance, currencyScale))]_vars

\* the state connect leaves without timeouts
connectOutcome ==
  IF bBlock["a"].flag THEN BLOCKED
  ELSE IF bChannel["a"] = "none" THEN ESTABLISHING_CHANNEL
  ELSE IF bClient["a"] = "none" THEN ESTABLISHING_CLIENT_CHANNEL
  ELSE READY

\* C30: when the lookups of the channels time out finitely often and then
\* succeed, connect completes in the state it reaches without timeouts, and
\* while it waits and retries the account stays in the LOADING state of the
\* lookup
C30_TimeoutsRetried ==
  /\ [](/\ bCon["a"].pc \in {"channel", "channelRetry"} =>
             bState["a"] = LOADING_CHANNEL
        /\ bCon["a"].pc \in {"client", "clientRetry"} =>
             bState["a"] = LOADING_CLIENT_CHANNEL)
  /\ (bCon["a"].pc = "load") ~>
       (bCon["a"].pc \in {"done", "claim"} /\ bState["a"] = connectOutcome)

\* the lookup of the client channel has timed out and the retry is awaited
C30_Witness ==
  /\ bCon["a"].pc = "clientRetry"
  /\ bState["a"] = LOADING_CLIENT_CHANNEL
  /\ bClient["a"] = ClientChannel

----------------------------------------------------------------------------
(* The store wrapper *)

\* the backing store after the writes ws have been applied to an empty one
RECURSIVE applyWrites(_)
applyWrites(ws) ==
  IF ws = <<>> THEN [c \in Chans |-> "none"]
  ELSE [applyWrites(SubSeq(ws, 1, Len(ws) - 1)) EXCEPT
          ![ws[Len(ws)].key] = ws[Len(ws)].value]

\* the number of issued writes that have reached the backing store
written == Len(issued) - Len(idxWrites)

\* C23: the puts and dels reach the backing store one at a time in the order
\* in which set and delete were called, whatever their keys: the backing
\* store always holds the outcome of a prefix of the writes issued and the
\* rest of them are queued in order; a get right after a set returns the
\* value set
C23_WritesInCallOrder ==
  /\ [](/\ written >= 0
        /\ idxWrites = SubSeq(issued, written + 1, Len(issued))
        /\ idxStore = applyWrites(SubSeq(issued, 1, written)))
  /\ [][/\ \A k \in Chans, v \in Accts : StoreSet(k, v) => get(k)' = v
        /\ IndexWritten => written' = written + 1]_vars

\* a write to one key, a delete of it and a write to another key were
\* issued, and only the first has reached the backing store
C23_Witness ==
  /\ Len(issued) = 3
  /\ issued[1].key = issued[2].key /\ issued[3].key # issued[1].key
  /\ issued[1].value # "none" /\ issued[2].value = "none"
  /\ written = 1
  /\ idxStore[issued[1].key] = issued[1].value

\* C24: load does nothing for a key the cache has; a value set while the
\* backing store is being read is kept when the read returns, and the value
\* read is dropped; once a load has completed the key is in the cache, so
\* that another load changes nothing
C24_LoadKeepsWrites ==
  [][\A k \in Chans :
       /\ StoreLoad(k) /\ idxCache[k] # "absent" => UNCHANGED vars
       /\ StoreLoaded(k) /\ fetch[k].wrote =>
            /\ idxCache[k] \in Accts
            /\ get(k)' = get(k)
       /\ StoreLoaded(k) => get(k)' # "absent"
       /\ StoreLoad(k) /\ fetch[k].pc = "done" /\ idxCache[k] # "absent" =>
            get(k)' = get(k) /\ fetch'[k].pc = "done"]_vars

\* a load of X has completed although X was set during its read; the cache
\* holds the value set and the backing store, not yet written, another
C24_Witness ==
  /\ fetch["X"] = [pc |-> "done", wrote |-> TRUE]
  /\ get("X") = "a"
  /\ idxStore["X"] = "none"
  /\ idxWrites # <<>>

----------------------------------------------------------------------------
(* Failed and concurrent bindings *)

\* the checks of the adoption account a has in progress fail
adoptionFails ==
  bindCheck("a", load(bPc["a"].channel, bPc["a"].read), bPc["a"].sigValid,
            validatePaychanDetails(bPc["a"].paychan)) # NoError

\* C31: an adoption that fails on the ledger lookup, the reverse index, the
\* ownership proof or the validation of the details takes the account from
\* PREPARING_CHANNEL back to ESTABLISHING_CHANNEL and records no channel id,
\* no index write, no mapping and no auto-claim timer; a failed fund_channel
\* takes it from PREPARING_CLIENT_CHANNEL back to ESTABLISHING_CLIENT_CHANNEL
\* and records no client channel, and the request can be sent again
C31_FailedBindingIsUndone ==
  [][/\ /\ bState["a"] = PREPARING_CHANNEL
        /\ \/ ChannelQueried("a", FALSE)
           \/ ChannelLoaded("a") /\ adoptionFails
        => /\ bState'["a"] = ESTABLISHING_CHANNEL
           /\ bChannel'["a"] = "none"
           /\ UNCHANGED <<bChannel, bPaychan, idxWrites, idxStore, bMap, bTimers>>
           /\ bPc'["a"].pc = "idle"
           /\ bErr'["a"] # NoError
     /\ /\ bState["a"] = PREPARING_CLIENT_CHANNEL
        /\ FundChannelCreated("a", FALSE) \/ FundChannelQueried("a", FALSE)
        => /\ bState'["a"] = ESTABLISHING_CLIENT_CHANNEL
           /\ bClient'["a"] = "none"
           /\ UNCHANGED <<bClient, clientPaychan>>
           /\ bFund'["a"] = "idle"]_vars

\* an adoption has failed on the ownership proof and the account is as it was
C31_Witness ==
  /\ bErr["a"] = Error("invalid signature for proving channel ownership")
  /\ bState["a"] = ESTABLISHING_CHANNEL
  /\ bChannel["a"] = "none"
  /\ bPc["a"].pc = "idle"
  /\ bTimers["a"] = 0

\* C32: while an adoption (PREPARING_CHANNEL) or a fund_channel
\* (PREPARING_CLIENT_CHANNEL) of the account is waiting for the ledger, every
\* further `channel` or `fund_channel` message of the account is refused on
\* the state and submits nothing and writes nothing; as the account stays in
\* PREPARING_CLIENT_CHANNEL for as long as a creation is in flight, no second
\* creation is submitted beside it
C32_SecondRequestRefused ==
  /\ [](bFund["a"] # "idle" => bState["a"] = PREPARING_CLIENT_CHANNEL)
  /\ [](bPc["a"].pc \in {"query", "load"} => bState["a"] = PREPARING_CHANNEL)
  /\ [][/\ bState["a"] \in {PREPARING_CHANNEL, PREPARING_CLIENT_CHANNEL}
        /\ \/ \E c \in Chans, hasSig \in BOOLEAN, sigValid \in BOOLEAN :
                ChannelMessage("a", c, hasSig, sigValid)
           \/ \E escrowed \in BOOLEAN : FundChannelMessage("a", escrowed)
        => /\ bLast'["a"].result = "state"
           /\ UNCHANGED <<bState, bPc, bFund, bChannel, bClient, bPaychan, bMap,
                          bTimers, idxCache, idxStore, idxWrites, chStore,
                          created, outVars>>]_vars

\* a fund_channel message was refused while the creation of the client
\* channel was in flight
C32_Witness ==
  /\ bLast["a"] = [protocol |-> "fund_channel", state |-> PREPARING_CLIENT_CHANNEL,
                   result |-> "state", replay |-> FALSE]
  /\ bFund["a"] = "create"

\* C39: at most one payment-channel-create transaction succeeds for an
\* account, also when the lookup of the channel just created fails and the
\* peer sends fund_channel again
C39_OneChannelCreated == created["a"] <= 1

----------------------------------------------------------------------------
(* Expiry and REJECT replies *)

\* C33: when the expiry of an admitted PREPARE comes before the response of
\* the data handler, the reply is the R00 REJECT and prepared is taken back
\* by the amount of the PREPARE, once; the response the data handler gives
\* later changes neither prepared nor what was replied nor what the money
\* handler was given
C33_ExpiryWinsOnce ==
  /\ [](prepared = kept + SumPending(Packets))
  /\ [][\A i \in Packets :
          /\ ExpireFirst(i) =>
               /\ prepared' = prepared - pkt[i].amount
               /\ pkt'[i].st = "expired"
               /\ UNCHANGED kept
          /\ (\E r \in {"FULFILL", "REJECT", "throw"} : DataLate(i, r)) =>
               /\ pkt[i].st = "expired"
               /\ UNCHANGED <<prepared, kept, claim, state>>]_vars

\* a PREPARE of 2000 has expired with its data handler still at work, and
\* prepared is back at what the other PREPARE, which was fulfilled, left
C33_Witness ==
  /\ pkt[2] = [st |-> "expired", amount |-> 2000]
  /\ pkt[1].st = "done"
  /\ prepared = 1000
  /\ kept = 1000

\* C34: every admitted PREPARE that is answered with a REJECT, be it the
\* data handler's, the one of the expiry or the one made from an error the
\* data handler threw, has had its amount taken off prepared when the reply
\* is returned
C34_RejectRollsBack ==
  [][\A i \in Packets :
       \/ DataResponse(i, "REJECT")
       \/ Expire(i)
       \/ DataThrows(i)
       => prepared' = prepared - pkt[i].amount]_vars

----------------------------------------------------------------------------
(* The states connect leaves *)

\* C35: an account that is READY has its channel id, the details of its
\* channel and its client channel id, also once _connect has dealt with a
\* loaded channel whose details failed the validation
C35_ReadyHasChannels ==
  \A p \in Accts :
    bState[p] = READY =>
      /\ bChannel[p] # "none"
      /\ bPaychan[p] # NoPaychan
      /\ bClient[p] # "none"

\* C36: once Account.connect has returned, and is not waiting to retry, the
\* account is in neither LOADING_CHANNEL nor LOADING_CLIENT_CHANNEL, whatever
\* error the lookups of the ledger raised
C36_ConnectLeavesLoading ==
  \A p \in Accts :
    bCon[p].pc \in {"claim", "done"} =>
      bState[p] \notin {LOADING_CHANNEL, LOADING_CLIENT_CHANNEL}

----------------------------------------------------------------------------
(* Overlapping auto-claim ticks *)

\* C37: two ticks of the auto-claim of an account, the second started while
\* the first was suspended, never both have a claim transaction for the
\* same claim amount with the txSubmitter
C37_OneSubmissionPerClaim ==
  ~ /\ cc["auto"].pc = "submit"
    /\ cc["auto2"].pc = "submit"
    /\ cc["auto"].amount = cc["auto2"].amount

----------------------------------------------------------------------------
(* The write queue of the store wrapper *)

\* C38: whenever the backing store holds channel c under <account>:channel
\* it holds the account under channel:<c>: the write of the reverse index is
\* queued before the write of the account's channel key
C38_IndexPersistedFirst ==
  \A p \in Accts :
    chStore[p] # "none" => idxStore[chStore[p]] = p

\* the adoption of X by account a has reached the backing store: the index
\* first, with the write of the account's key still queued, or both
C38_Witness ==
  /\ idxStore["X"] = "a"
  /\ chStore["a"] = "none"
  /\ idxWrites = <<[key |-> "a", value |-> "X"]>>
  /\ bChannel["a"] = "X"

\* C40: a put or del that the backing store rejects does not stop the write
\* queue: each write that leaves the queue after the failed one has its put
\* or del made, in the order of the calls
C40_QueueSurvivesFailure ==
  [][rejected /\ idxWrites # <<>> /\ idxWrites' = Tail(idxWrites)
     => idxStore' = putIndex(Head(idxWrites))]_vars

====
